---------------------------- MODULE Spec2Model ----------------------------
(***************************************************************************)
(* Salah Prayer API: the result caches (app/main.py, app/cache.py,         *)
(* app/iphone_cache.py), the daily endpoint, the Fazilet methodology       *)
(* (app/calculations/fazilet.py, astronomy.py) and the calibration tables. *)
(*                                                                         *)
(* Time is counted in minutes (time.time() / 60).  Real numbers are kept   *)
(* in fixed point: angles in millidegrees, trigonometric values scaled by  *)
(* TrigScale, times of day in milliminutes.                                *)
(***************************************************************************)
EXTENDS Integers, Sequences, FiniteSets, TLC

VARIABLES
    unit,          \* which component the run exercises
    now,           \* time.time(), in minutes
    main_cache,    \* app/main.py: iphone_cache = iPhoneOptimizedCache(max_size)
    pro_cache,     \* app/cache.py: cache = ProfessionalCache(max_size)
    last,          \* the last call made on a cache and what it returned
    recency,       \* the stored keys by most recent access, oldest first
    pc,            \* per client: "idle", "pending" (request queued), "done"
    request,       \* per client: the PrayerTimesRequest it sent
    response,      \* per client: the HTTP response it received
    calculated,    \* per client: the handler invoked the calculator
    leader,        \* per client: whose calculation ran while it was pending
    ip_cache,      \* app/iphone_cache.py: iphone_cache = iPhoneOptimizedCache()
    ip_expire,     \* per stored key: the expire_minutes its store selected
    ip_last,       \* the last call made on ip_cache and what it returned
    fz_in,         \* the arguments of FaziletMethodology.calculate_prayer_times
    fz_out,        \* its result, per event a clock string or N/A
    cal_in,        \* the implementation and arguments of apply_calibration
    cal_out,       \* its result
    rt,            \* a base time carried through adjustment +N, then -N
    call           \* a call of a pure function under study: arguments, result

cacheVars == <<main_cache, pro_cache, last, recency>>
dailyVars == <<pc, request, response, calculated, leader>>
ipVars == <<ip_cache, ip_expire, ip_last>>
calcVars == <<fz_in, fz_out, cal_in, cal_out>>
moreVars == <<rt, call>>

vars == <<unit, now, cacheVars, dailyVars, ipVars, calcVars, moreVars>>

(***************************************************************************)
(* Bounds of the model.                                                    *)
(***************************************************************************)
NumKeys == 4        \* distinct cache keys under capacity pressure
MaxSize == 3        \* largest max_size under capacity pressure
NumTtlKeys == 3     \* distinct cache keys with the clock running
TtlMaxSize == 2     \* largest max_size with the clock running
TtlMaxSets == 3     \* sets counted per run with the clock running
MaxTicks == 2       \* clock advances per run
MaxLookups == 2     \* hits + misses counted per run
MaxSets == 5        \* sets counted per run (ProfessionalCache.stats)
NumClients == 2     \* clients of the daily endpoint, one request each
DailyMaxSize == 1   \* largest IPHONE_CACHE_SIZE under the daily endpoint
MaxDayOffset == 1   \* requested dates lie within this many days of day 0

Keys == 1..NumKeys
TtlKeys == 1..NumTtlKeys
Values == {"v1", "v2"}
\* The payload computed for a key: a function of the request the key stands for
PayloadOf(key) == IF key % 2 = 1 THEN "v1" ELSE "v2"
None == "None"

(***************************************************************************)
(* Program constants.                                                      *)
(***************************************************************************)
DEFAULT_MAX_AGE == 60          \* get(key, max_age_minutes=60)
IPHONE_MAX_AGE == 1440         \* get_prayer_times: max_age_minutes=1440
DEFAULT_TTL_SECONDS == 3600    \* _set_with_metadata(..., ttl_seconds=3600)
DAILY_TTL_SECONDS == 86400     \* set_daily_prayer_times: ttl_seconds=86400

\* One clock advance: the daily lifetime, so that an age equal to the lifetime
\* and an age beyond it both occur.
TickMinutes == IPHONE_MAX_AGE
\* The lifetime goes with the key's namespace: the callers of get and set pass
\* the same lifetime for every key of a namespace.
MaxAgeOf(key) == IF key % 2 = 1 THEN IPHONE_MAX_AGE ELSE DEFAULT_MAX_AGE
TtlSecondsOf(key) == IF key % 2 = 1 THEN DAILY_TTL_SECONDS ELSE DEFAULT_TTL_SECONDS

(***************************************************************************)
(* collections.OrderedDict, as a sequence of [key, value] in insertion     *)
(* order, and dict, as a function on the keys present.                     *)
(***************************************************************************)
OD_keys(od) == {od[i].key : i \in DOMAIN od}

OD_get(od, k) == (CHOOSE i \in DOMAIN od : od[i].key = k)

OD_value(od, k) == od[OD_get(od, k)].value

OD_del(od, k) == SelectSeq(od, LAMBDA e : e.key # k)

\* od[k] = v: an existing key keeps its position, a new key goes to the end
OD_setitem(od, k, v) ==
    IF k \in OD_keys(od)
    THEN [i \in DOMAIN od |-> IF od[i].key = k THEN [key |-> k, value |-> v] ELSE od[i]]
    ELSE Append(od, [key |-> k, value |-> v])

\* od.pop(k) followed by od[k] = v
OD_move_to_end(od, k) == Append(OD_del(od, k), [key |-> k, value |-> OD_value(od, k)])

Dict_del(d, k) == [x \in (DOMAIN d) \ {k} |-> d[x]]

Dict_setitem(d, k, v) == [x \in (DOMAIN d) \cup {k} |-> IF x = k THEN v ELSE d[x]]

EmptyDict == [x \in {} |-> 0]

(***************************************************************************)
(* app/main.py: class iPhoneOptimizedCache                                 *)
(***************************************************************************)
Main_init(max_size) ==
    [max_size |-> max_size, cache |-> <<>>, timestamps |-> EmptyDict,
     hits |-> 0, misses |-> 0]

\* delete that removes the value and keeps the timestamp
Main_delete_value_only(c, key) ==
    [c EXCEPT !.cache = OD_del(c.cache, key)]

Main_delete(c, key) ==
    [c EXCEPT !.cache = OD_del(c.cache, key),
              !.timestamps = Dict_del(c.timestamps, key)]

\* Main_get with the expiry test written >= instead of >
Main_get_expires_at_ttl(c, key, max_age_minutes, t) ==
    IF key \notin OD_keys(c.cache)
    THEN [c |-> [c EXCEPT !.misses = @ + 1], ret |-> None, branch |-> "absent"]
    ELSE IF key \in DOMAIN c.timestamps /\ (t - c.timestamps[key]) >= max_age_minutes
    THEN [c |-> [Main_delete(c, key) EXCEPT !.misses = @ + 1],
          ret |-> None, branch |-> "expired"]
    ELSE [c |-> [c EXCEPT !.cache = OD_move_to_end(c.cache, key), !.hits = @ + 1],
          ret |-> OD_value(c.cache, key), branch |-> "hit"]

\* get(key, max_age_minutes) at time t: the cache after the call and the
\* value returned
Main_get(c, key, max_age_minutes, t) ==
    IF key \notin OD_keys(c.cache)
    THEN [c |-> [c EXCEPT !.misses = @ + 1], ret |-> None, branch |-> "absent"]
    ELSE IF key \in DOMAIN c.timestamps /\ (t - c.timestamps[key]) > max_age_minutes
    THEN [c |-> [Main_delete(c, key) EXCEPT !.misses = @ + 1],
          ret |-> None, branch |-> "expired"]
    ELSE [c |-> [c EXCEPT !.cache = OD_move_to_end(c.cache, key), !.hits = @ + 1],
          ret |-> OD_value(c.cache, key), branch |-> "hit"]

\* Main_evict with the capacity test written > instead of >=
Main_evict_when_over(c) ==
    IF Len(c.cache) > c.max_size
    THEN Main_delete(c, c.cache[1].key)
    ELSE c

\* set: "Remove oldest if at max size"
Main_evict(c) ==
    IF Len(c.cache) >= c.max_size
    THEN Main_delete(c, c.cache[1].key)
    ELSE c

\* set(key, value, expire_minutes) at time t; expire_minutes is not used
Main_set(c, key, value, expire_minutes, t) ==
    LET e == Main_evict(c)
    IN  [e EXCEPT !.cache = OD_setitem(e.cache, key, value),
                  !.timestamps = Dict_setitem(e.timestamps, key, t)]

(***************************************************************************)
(* app/cache.py: class ProfessionalCache                                   *)
(***************************************************************************)
Pro_init(max_size) ==
    [max_size |-> max_size, data_cache |-> <<>>, metadata |-> EmptyDict,
     stats |-> [hits |-> 0, misses |-> 0, sets |-> 0, evictions |-> 0]]

Pro_delete(c, key) ==
    [c EXCEPT !.data_cache = OD_del(c.data_cache, key),
              !.metadata = Dict_del(c.metadata, key)]

\* time.time() is in seconds
Pro_get_with_metadata(c, key, t) ==
    IF key \notin OD_keys(c.data_cache)
    THEN [c |-> [c EXCEPT !.stats.misses = @ + 1], ret |-> None, branch |-> "absent"]
    ELSE IF key \in DOMAIN c.metadata
            /\ (t - c.metadata[key].timestamp) * 60 > c.metadata[key].ttl
    THEN [c |-> [Pro_delete(c, key) EXCEPT !.stats.misses = @ + 1],
          ret |-> None, branch |-> "expired"]
    ELSE [c |-> [c EXCEPT !.data_cache = OD_move_to_end(c.data_cache, key),
                          !.stats.hits = @ + 1],
          ret |-> OD_value(c.data_cache, key), branch |-> "hit"]

Pro_evict(c) ==
    IF Len(c.data_cache) >= c.max_size
    THEN [Pro_delete(c, c.data_cache[1].key) EXCEPT !.stats.evictions = @ + 1]
    ELSE c

Pro_set_with_metadata(c, key, data, ttl_seconds, t) ==
    LET e == Pro_evict(c)
    IN  [e EXCEPT !.data_cache = OD_setitem(e.data_cache, key, data),
                  !.metadata = Dict_setitem(e.metadata, key,
                                            [timestamp |-> t, ttl |-> ttl_seconds]),
                  !.stats.sets = @ + 1]

(***************************************************************************)
(* app/main.py: POST /api/v1/times/daily.  An Optional value is a sequence *)
(* of length at most one; a dict with string keys is a record.             *)
(***************************************************************************)
Clients == 1..NumClients

NoClient == 0

DailyLatitudes == {41}
DailyLongitudes == {29}
DailyDates == {"2026-06-21"}
DailyCountries == {"turkey", "norway"}
TimezoneOffsets == {<<>>, <<0>>, <<3>>}

PrayerTimesRequest ==
    [latitude : DailyLatitudes, longitude : DailyLongitudes, date : DailyDates,
     country : DailyCountries, timezone_offset : TimezoneOffsets]

\* generate_key(*args): the digest of str(args), one key per argument tuple
generate_key(args) == <<"cache", args>>

DailyKey(r) == generate_key(<<"daily", r.latitude, r.longitude, r.date, r.country>>)

\* round(longitude / 15.0) for a whole number of degrees (no tie occurs)
RoundLongitudeHours(longitude) ==
    IF 2 * (longitude % 15) > 15 THEN (longitude \div 15) + 1 ELSE longitude \div 15

\* request.timezone_offset if request.timezone_offset else round(longitude / 15.0):
\* an offset of 0 is falsy
EffectiveTimezoneOffset(r) ==
    IF r.timezone_offset # <<>> /\ r.timezone_offset[1] # 0
    THEN r.timezone_offset[1]
    ELSE RoundLongitudeHours(r.longitude)

\* ProfessionalAstroCalculator.calculate_prayer_times: the times are determined
\* by its four arguments
ProfessionalAstro_calculate_prayer_times(latitude, longitude, target_date, timezone_offset) ==
    <<"base_times", latitude, longitude, target_date, timezone_offset>>

\* FaziletCalibrator.apply_calibration(base_times, country)
Daily_apply_calibration(base_times, country) == <<"calibrated", base_times, country>>

\* FaziletCalibrator.calculate_qibla(latitude, longitude)
Daily_calculate_qibla(latitude, longitude) == <<"qibla", latitude, longitude>>

\* calculation_time_ms is kept in tenths of a millisecond
ResponseData(r) ==
    LET timezone_offset == EffectiveTimezoneOffset(r)
        base_times == ProfessionalAstro_calculate_prayer_times(
                          r.latitude, r.longitude, r.date, timezone_offset)
    IN  [date |-> r.date,
         location |-> [latitude |-> r.latitude, longitude |-> r.longitude],
         country |-> r.country,
         timezone_offset |-> timezone_offset,
         prayer_times |-> Daily_apply_calibration(base_times, r.country),
         qibla_direction |-> Daily_calculate_qibla(r.latitude, r.longitude),
         calibration_applied |-> TRUE,
         cache_hit |-> FALSE,
         calculation_time_ms |-> 500,
         battery_optimized |-> TRUE]

\* The keywords the cached branch passes next to **cached
CachedBranchKeywords ==
    [cache_hit |-> TRUE, calculation_time_ms |-> 1, battery_optimized |-> TRUE]

\* f(**d, **kw): a keyword given twice raises TypeError before f is called
KeywordsClash(d, kw) == (DOMAIN d) \cap (DOMAIN kw) # {}

MergeKeywords(d, kw) ==
    [x \in (DOMAIN d) \cup (DOMAIN kw) |-> IF x \in DOMAIN kw THEN kw[x] ELSE d[x]]

HttpOk(body) == [status |-> 200, body |-> body]

\* except Exception: raise HTTPException(status_code=500, ...)
HttpServerError == [status |-> 500, body |-> [detail |-> "Server error"]]

NoResponse == [status |-> 0, body |-> [detail |-> "none"]]

\* The handler run to completion on cache c at time t: the cache afterwards,
\* the response, and whether the calculator was invoked
get_daily_prayer_times(c, r, t) ==
    LET cached == Main_get(c, DailyKey(r), IPHONE_MAX_AGE, t)
    IN  IF cached.branch = "hit"
        THEN [c |-> cached.c,
              response |-> IF KeywordsClash(cached.ret, CachedBranchKeywords)
                           THEN HttpServerError
                           ELSE HttpOk(MergeKeywords(cached.ret, CachedBranchKeywords)),
              calculated |-> FALSE]
        ELSE [c |-> Main_set(cached.c, DailyKey(r), ResponseData(r), IPHONE_MAX_AGE, t),
              response |-> HttpOk(ResponseData(r)),
              calculated |-> TRUE]

DailyIdle ==
    /\ pc = [c \in Clients |-> "idle"]
    /\ request = [c \in Clients |-> CHOOSE r \in PrayerTimesRequest : TRUE]
    /\ response = [c \in Clients |-> NoResponse]
    /\ calculated = [c \in Clients |-> FALSE]
    /\ leader = [c \in Clients |-> NoClient]

(***************************************************************************)
(* app/iphone_cache.py: class iPhoneOptimizedCache.  A date is the number  *)
(* of its day, day 0 beginning at time 0; strptime and isoformat map dates *)
(* and their strings one to one.                                           *)
(***************************************************************************)
MINUTES_PER_DAY == 1440
EXPIRE_TODAY == 1440
EXPIRE_FUTURE == 10080
EXPIRE_PAST == 525600

IpDates == (0 - MaxDayOffset)..MaxDayOffset

Ip_init == [_cache |-> EmptyDict, _timestamps |-> EmptyDict, _hits |-> 0, _misses |-> 0]

\* datetime.now().date() at time t
Today(t) == t \div MINUTES_PER_DAY

generate_cache_key(latitude, longitude, date_str, country) ==
    <<"prayer", latitude, longitude, date_str, country>>

\* get: time.time() is in seconds, the clock of the model in minutes
Ip_get(c, key, max_age_minutes, t) ==
    IF key \notin DOMAIN c._cache
    THEN [c |-> [c EXCEPT !._misses = @ + 1], found |-> FALSE, ret |-> <<>>]
    ELSE IF key \notin DOMAIN c._timestamps
    THEN [c |-> [c EXCEPT !._misses = @ + 1], found |-> FALSE, ret |-> <<>>]
    ELSE IF (t - c._timestamps[key]) * 60 > max_age_minutes * 60
    THEN [c |-> [c EXCEPT !._cache = Dict_del(c._cache, key),
                          !._timestamps = Dict_del(c._timestamps, key),
                          !._misses = @ + 1],
          found |-> FALSE, ret |-> <<>>]
    ELSE [c |-> [c EXCEPT !._hits = @ + 1], found |-> TRUE, ret |-> c._cache[key]]

\* set: expire_minutes is not used
Ip_set(c, key, data, expire_minutes, t) ==
    [c EXCEPT !._cache = Dict_setitem(c._cache, key, data),
              !._timestamps = Dict_setitem(c._timestamps, key, t)]

Ip_get_prayer_times(c, latitude, longitude, date_str, country, t) ==
    Ip_get(c, generate_cache_key(latitude, longitude, date_str, country), EXPIRE_TODAY, t)

\* cache_prayer_times: "Calculate smart expiration based on date"
SmartExpiration(date_str, t) ==
    IF date_str = Today(t) THEN EXPIRE_TODAY
    ELSE IF date_str > Today(t) THEN EXPIRE_FUTURE
    ELSE EXPIRE_PAST

Ip_cache_prayer_times(c, latitude, longitude, date_str, country, data, t) ==
    Ip_set(c, generate_cache_key(latitude, longitude, date_str, country), data,
           SmartExpiration(date_str, t), t)

IpNoCall == [op |-> "none", date |-> 0, present |-> FALSE, found |-> FALSE,
             age |-> 0, expire |-> 0]

IphoneIdle ==
    /\ ip_cache = Ip_init
    /\ ip_expire = EmptyDict
    /\ ip_last = IpNoCall

(***************************************************************************)
(* Fixed-point arithmetic for app/calculations/astronomy.py: angles in     *)
(* millidegrees, sines and cosines scaled by TrigScale, times and time     *)
(* differences in milliminutes (one millidegree of hour angle is four      *)
(* milliminutes).  An Optional float is a sequence of length at most one.  *)
(***************************************************************************)
TrigScale == 10000
MilliPerUnit == 1000
FULL_TURN == 360000
HALF_TURN == 180000
QUARTER_TURN == 90000
\* hour_angle / 15.0 hours of 60 minutes: milliminutes per millidegree
MinutesPerDegree == 4

Abs(x) == IF x < 0 THEN 0 - x ELSE x

Sign(x) == IF x < 0 THEN 0 - 1 ELSE 1

\* a / b to the nearest integer, b > 0
RoundDiv(a, b) == (2 * a + b) \div (2 * b)

\* int(a / b): truncation towards zero, b > 0
TruncDiv(a, b) == Sign(a) * (Abs(a) \div b)

RECURSIVE ISqrtBetween(_, _, _)
ISqrtBetween(n, lo, hi) ==
    IF lo >= hi THEN lo
    ELSE LET mid == (lo + hi + 1) \div 2
         IN  IF mid * mid <= n THEN ISqrtBetween(n, mid, hi)
             ELSE ISqrtBetween(n, lo, mid - 1)

\* floor(sqrt(n))
ISqrt(n) == ISqrtBetween(n, 0, 46340)

\* TrigScale * sin(d degrees) for d = 0..90, at index d + 1
SinTable ==
    <<
      0, 175, 349, 523, 698, 872, 1045, 1219, 1392, 1564,
      1736, 1908, 2079, 2250, 2419, 2588, 2756, 2924, 3090, 3256,
      3420, 3584, 3746, 3907, 4067, 4226, 4384, 4540, 4695, 4848,
      5000, 5150, 5299, 5446, 5592, 5736, 5878, 6018, 6157, 6293,
      6428, 6561, 6691, 6820, 6947, 7071, 7193, 7314, 7431, 7547,
      7660, 7771, 7880, 7986, 8090, 8192, 8290, 8387, 8480, 8572,
      8660, 8746, 8829, 8910, 8988, 9063, 9135, 9205, 9272, 9336,
      9397, 9455, 9511, 9563, 9613, 9659, 9703, 9744, 9781, 9816,
      9848, 9877, 9903, 9925, 9945, 9962, 9976, 9986, 9994, 9998,
      10000 >>

\* math.sin for an angle of the first quadrant, between the entries of the table
SinFirstQuadrant(x) ==
    LET d == x \div MilliPerUnit
        f == x % MilliPerUnit
    IN  IF d >= 90 THEN SinTable[91]
        ELSE SinTable[d + 1] + RoundDiv((SinTable[d + 2] - SinTable[d + 1]) * f, MilliPerUnit)

\* math.sin(math.radians(x))
Sin(x) ==
    LET y == x % FULL_TURN
    IN  IF y <= QUARTER_TURN THEN SinFirstQuadrant(y)
        ELSE IF y <= HALF_TURN THEN SinFirstQuadrant(HALF_TURN - y)
        ELSE IF y <= HALF_TURN + QUARTER_TURN THEN 0 - SinFirstQuadrant(y - HALF_TURN)
        ELSE 0 - SinFirstQuadrant(FULL_TURN - y)

\* math.cos(math.radians(x))
Cos(x) == Sin(x + QUARTER_TURN)

\* math.asin for 0 <= s <= TrigScale
AsinFirstQuadrant(s) ==
    IF s >= SinTable[91] THEN QUARTER_TURN
    ELSE LET d == CHOOSE i \in 0..89 : SinTable[i + 1] <= s /\ s < SinTable[i + 2]
         IN  d * MilliPerUnit
             + RoundDiv((s - SinTable[d + 1]) * MilliPerUnit, SinTable[d + 2] - SinTable[d + 1])

\* math.degrees(math.asin(s))
Asin(s) == Sign(s) * AsinFirstQuadrant(Abs(s))

\* math.degrees(math.acos(c))
Acos(c) == QUARTER_TURN - Asin(c)

\* math.degrees(math.atan2(y, x)), in (-180, 180] degrees
Atan2(y, x) ==
    LET r == ISqrt(x * x + y * y)
        a == IF r = 0 THEN 0
             ELSE IF Abs(y) <= Abs(x)
                  THEN AsinFirstQuadrant(RoundDiv(Abs(y) * TrigScale, r))
                  ELSE QUARTER_TURN - AsinFirstQuadrant(RoundDiv(Abs(x) * TrigScale, r))
    IN  IF x >= 0 THEN Sign(y) * a ELSE Sign(y) * (HALF_TURN - a)

(***************************************************************************)
(* Clock strings.  A str is the sequence of its characters; N/A is the     *)
(* sentinel of an undefined event.                                         *)
(***************************************************************************)
NA == <<"N", "/", "A">>

DigitChars == <<"0", "1", "2", "3", "4", "5", "6", "7", "8", "9">>

DigitValue(ch) == (CHOOSE i \in 1..10 : DigitChars[i] = ch) - 1

RECURSIVE DecimalDigits(_)
\* str(n) for n >= 0
DecimalDigits(n) ==
    IF n < 10 THEN <<DigitChars[n + 1]>>
    ELSE DecimalDigits(n \div 10) \o <<DigitChars[(n % 10) + 1]>>

\* f"{n:02d}"
Format02d(n) ==
    IF n < 0 THEN <<"-">> \o DecimalDigits(0 - n)
    ELSE IF n < 10 THEN <<"0">> \o DecimalDigits(n)
    ELSE DecimalDigits(n)

\* f"{hours:02d}:{mins:02d}"
FormatClock(hours, mins) == Format02d(hours) \o <<":">> \o Format02d(mins)

RECURSIVE ParseDigits(_)
ParseDigits(chars) ==
    IF chars = <<>> THEN 0
    ELSE 10 * ParseDigits(SubSeq(chars, 1, Len(chars) - 1)) + DigitValue(chars[Len(chars)])

\* int(s)
ParseInt(chars) ==
    IF chars # <<>> /\ Head(chars) = "-" THEN 0 - ParseDigits(Tail(chars))
    ELSE ParseDigits(chars)

\* hour, minute = map(int, time_str.split(':'))
ParseClock(time_str) ==
    LET colon == CHOOSE i \in 1..Len(time_str) : time_str[i] = ":"
    IN  [hour |-> ParseInt(SubSeq(time_str, 1, colon - 1)),
         minute |-> ParseInt(SubSeq(time_str, colon + 1, Len(time_str)))]

\* A clock string as a time of day, in minutes after midnight
TimeOfDay(time_str) == 60 * ParseClock(time_str).hour + ParseClock(time_str).minute

(***************************************************************************)
(* app/calculations/astronomy.py: class AstronomicalCalculations           *)
(***************************************************************************)
J2000 == 2451545

\* julian_day of a date at 12:00: day = date.day + 0.5, so JD is whole
julian_day(date) ==
    LET year == IF date.month <= 2 THEN date.year - 1 ELSE date.year
        month == IF date.month <= 2 THEN date.month + 12 ELSE date.month
        A == year \div 100
        B == 2 - A + (A \div 4)
    IN  ((1461 * (year + 4716)) \div 4) + ((306001 * (month + 1)) \div 10000)
        + date.day + B - 1524

\* g = 357.529 + 0.98560028 * D
SunMeanAnomaly(D) == 357529 + 985 * D + RoundDiv(60028 * D, 100000)

\* q = 280.459 + 0.98564736 * D
SunMeanLongitude(D) == 280459 + 985 * D + RoundDiv(64736 * D, 100000)

\* L = q + 1.915 sin g + 0.020 sin 2g
SunTrueLongitude(D) ==
    SunMeanLongitude(D) + RoundDiv(1915 * Sin(SunMeanAnomaly(D)), TrigScale)
    + RoundDiv(20 * Sin(2 * SunMeanAnomaly(D)), TrigScale)

\* e = 23.439 - 0.00000036 * D
Obliquity(D) == 23439 - RoundDiv(36 * D, 100000)

\* equation_of_time(jd), in milliminutes
equation_of_time(jd) ==
    LET D == jd - J2000
        L == SunTrueLongitude(D)
        e == Obliquity(D)
        RA == Atan2(RoundDiv(Cos(e) * Sin(L), TrigScale), Cos(L)) % FULL_TURN
        diff == (L % FULL_TURN) - RA
        EqT == IF diff > HALF_TURN THEN diff - FULL_TURN
               ELSE IF diff < 0 - HALF_TURN THEN diff + FULL_TURN
               ELSE diff
    IN  MinutesPerDegree * EqT

\* sun_declination(jd), in millidegrees
sun_declination(jd) ==
    LET D == jd - J2000
    IN  Asin(RoundDiv(Sin(Obliquity(D)) * Sin(SunTrueLongitude(D)), TrigScale))

\* The hour angle at which the sun's altitude has the given sine: <<>> (None)
\* if the sun never reaches it, else the time difference from solar noon in
\* milliminutes.  At a pole cos(lat) is a rounding residue and the quotient
\* is out of range.
HourAngleTime(sin_alt, latitude, declination) ==
    LET num == sin_alt * TrigScale - Sin(latitude) * Sin(declination)
        den == RoundDiv(Cos(latitude) * Cos(declination), TrigScale)
        cos_hour == RoundDiv(num, den)
    IN  IF den <= 0 THEN <<>>
        ELSE IF cos_hour > TrigScale \/ cos_hour < 0 - TrigScale THEN <<>>
        ELSE <<MinutesPerDegree * Acos(cos_hour)>>

compute_time(angle, latitude, declination) ==
    HourAngleTime(Sin(angle), latitude, declination)

\* asr_time: tan(asr_altitude) = 1 / (shadow_factor + 1 / tan(altitude_noon)),
\* with a shadow of 9999 when the sun is not above the horizon at noon
asr_time(latitude, declination, shadow_factor) ==
    LET altitude_noon == QUARTER_TURN - Abs(latitude - declination)
        asr_altitude ==
            IF altitude_noon > 0
            THEN Atan2(Sin(altitude_noon),
                       shadow_factor * Sin(altitude_noon) + Cos(altitude_noon))
            ELSE Atan2(1, shadow_factor + 9999)
    IN  HourAngleTime(Sin(asr_altitude), latitude, declination)

\* solar_noon_time, in milliminutes after midnight; longitude in millidegrees,
\* timezone in hours
solar_noon_time(longitude, timezone, eot) ==
    720 * MilliPerUnit - MinutesPerDegree * longitude + 60 * MilliPerUnit * timezone - eot

\* minutes_to_time_string(minutes) for minutes in milliminutes
minutes_to_time_string(minutes) ==
    LET total_minutes == TruncDiv(minutes, MilliPerUnit)
        hours == total_minutes \div 60
        mins == total_minutes % 60
    IN  FormatClock(IF hours >= 24 THEN hours - 24
                    ELSE IF hours < 0 THEN hours + 24
                    ELSE hours,
                    mins)

(***************************************************************************)
(* app/calculations/fazilet.py: class FaziletMethodology                   *)
(***************************************************************************)
Events == <<"fajr", "sunrise", "dhuhr", "asr", "maghrib", "isha">>

SUNRISE_ANGLE == 0 - 833
DEFAULT_HIGH_LATITUDE_THRESHOLD == 48500

AngleBasedConfig(adjustment_minutes) ==
    [high_latitude_method |-> "angle_based", high_latitude_threshold |-> 48500,
     fajr_angle |-> 18000, isha_angle |-> 17000, asr_method |-> "shafi",
     adjustment_minutes |-> adjustment_minutes]

\* These entries have no high_latitude_threshold: config.get(..., 48.5)
PlainConfig(adjustment_minutes) ==
    [high_latitude_method |-> "none",
     high_latitude_threshold |-> DEFAULT_HIGH_LATITUDE_THRESHOLD,
     fajr_angle |-> 18000, isha_angle |-> 17000, asr_method |-> "shafi",
     adjustment_minutes |-> adjustment_minutes]

COUNTRY_CONFIGS ==
    [world |-> AngleBasedConfig([fajr |-> 11, sunrise |-> 0 - 2, dhuhr |-> 8,
                                 asr |-> 6, maghrib |-> 8, isha |-> 7]),
     norway |-> AngleBasedConfig([fajr |-> 11, sunrise |-> 0, dhuhr |-> 10,
                                  asr |-> 9, maghrib |-> 10, isha |-> 8]),
     turkey |-> PlainConfig([fajr |-> 6, sunrise |-> 0 - 8, dhuhr |-> 11,
                             asr |-> 12, maghrib |-> 10, isha |-> 12]),
     south_korea |-> PlainConfig([fajr |-> 10, sunrise |-> 0 - 3, dhuhr |-> 8,
                                  asr |-> 7, maghrib |-> 10, isha |-> 7]),
     tajikistan |-> PlainConfig([fajr |-> 10, sunrise |-> 0 - 3, dhuhr |-> 9,
                                 asr |-> 7, maghrib |-> 10, isha |-> 8]),
     uzbekistan |-> PlainConfig([fajr |-> 10, sunrise |-> 0 - 3, dhuhr |-> 8,
                                 asr |-> 8, maghrib |-> 10, isha |-> 8])]

\* str.lower() on the country and city names of the model
Lower(country) ==
    CASE country = "Norway" -> "norway"
      [] country = "Turkey" -> "turkey"
      [] country = "South Korea" -> "south korea"
      [] country = "Oslo" -> "oslo"
      [] country = "Tromso" -> "tromso"
      [] country = "NORWAY" -> "norway"
      [] country = "TURKEY" -> "turkey"
      [] country = "SOUTH_KOREA" -> "south_korea"
      [] country = "South_Korea" -> "south_korea"
      [] country = "Tajikistan" -> "tajikistan"
      [] country = "Norge" -> "norge"
      [] country = "Atlantis" -> "atlantis"
      [] country = "North Korea" -> "north korea"
      [] OTHER -> country

\* COUNTRY_CONFIGS.get(country.lower(), COUNTRY_CONFIGS['turkey'])
FaziletConfig(country) ==
    IF Lower(country) \in DOMAIN COUNTRY_CONFIGS
    THEN COUNTRY_CONFIGS[Lower(country)]
    ELSE COUNTRY_CONFIGS["turkey"]

\* apply_high_latitude_adjustment with the night duration taken once
apply_high_latitude_adjustment_single_night(prayer, latitude, declination, config) ==
    LET sunrise_diff == compute_time(SUNRISE_ANGLE, latitude, declination)
        night_duration == IF sunrise_diff = <<>> THEN 0 ELSE sunrise_diff[1]
    IN  IF config.high_latitude_method # "angle_based" THEN <<>>
        ELSE IF prayer \notin {"fajr", "isha"} THEN <<>>
        ELSE IF sunrise_diff = <<>> THEN <<>>
        ELSE IF prayer = "fajr" THEN <<sunrise_diff[1] - RoundDiv(night_duration, 7)>>
        ELSE <<sunrise_diff[1] + RoundDiv(night_duration, 7)>>

\* apply_high_latitude_adjustment: "Angle-based method (1/7th of night)"
apply_high_latitude_adjustment(prayer, latitude, declination, config) ==
    LET sunrise_diff == compute_time(SUNRISE_ANGLE, latitude, declination)
        night_duration == IF sunrise_diff = <<>> THEN 0 ELSE 2 * sunrise_diff[1]
    IN  IF config.high_latitude_method # "angle_based" THEN <<>>
        ELSE IF prayer \notin {"fajr", "isha"} THEN <<>>
        ELSE IF sunrise_diff = <<>> THEN <<>>
        ELSE IF prayer = "fajr" THEN <<sunrise_diff[1] - RoundDiv(night_duration, 7)>>
        ELSE <<sunrise_diff[1] + RoundDiv(night_duration, 7)>>

needs_high_lat_adjustment(latitude, config) ==
    /\ config.high_latitude_method # "none"
    /\ Abs(latitude) > config.high_latitude_threshold

\* The time difference used for Fajr or Isha: the depression angle, else the
\* high-latitude adjustment
TwilightTimeDiff(prayer, angle, latitude, declination, config) ==
    LET time_diff == compute_time(0 - angle, latitude, declination)
    IN  IF time_diff = <<>> /\ needs_high_lat_adjustment(latitude, config)
        THEN apply_high_latitude_adjustment(prayer, latitude, declination, config)
        ELSE time_diff

\* A city is a sequence of at most one name (city: str = None)
NoCity == <<>>

\* city_adj: the city's overrides, <<>> for None
CityAdjustments(config, city) ==
    IF city # NoCity /\ "city_adjustments" \in DOMAIN config
       /\ Lower(city[1]) \in DOMAIN config.city_adjustments
    THEN <<config.city_adjustments[Lower(city[1])]>>
    ELSE <<>>

DEFAULT_ARCTIC_THRESHOLD == 65000

\* arctic_adj: the arctic overrides at this latitude, <<>> for None
ArcticAdjustments(config, latitude) ==
    IF "arctic_adjustments" \in DOMAIN config
       /\ Abs(latitude) >=
             (IF "latitude_threshold" \in DOMAIN config.arctic_adjustments
              THEN config.arctic_adjustments.latitude_threshold
              ELSE DEFAULT_ARCTIC_THRESHOLD)
    THEN <<config.arctic_adjustments.adjustment_minutes>>
    ELSE <<>>

\* A dict that is not None and not empty
Truthy(optional_dict) == optional_dict # <<>> /\ DOMAIN optional_dict[1] # {}

\* The selection with the arctic override looked at before the city override
EventAdjustment_arctic_first(config, city, latitude, prayer) ==
    LET city_adj == CityAdjustments(config, city)
        arctic_adj == ArcticAdjustments(config, latitude)
    IN  IF Truthy(arctic_adj) /\ prayer \in DOMAIN arctic_adj[1] THEN arctic_adj[1][prayer]
        ELSE IF Truthy(city_adj) /\ prayer \in DOMAIN city_adj[1] THEN city_adj[1][prayer]
        ELSE config.adjustment_minutes[prayer]

\* "Priority: city_adj > arctic_adj > base config", in minutes
EventAdjustment(config, city, latitude, prayer) ==
    LET city_adj == CityAdjustments(config, city)
        arctic_adj == ArcticAdjustments(config, latitude)
    IN  IF Truthy(city_adj) /\ prayer \in DOMAIN city_adj[1] THEN city_adj[1][prayer]
        ELSE IF Truthy(arctic_adj) /\ prayer \in DOMAIN arctic_adj[1] THEN arctic_adj[1][prayer]
        ELSE config.adjustment_minutes[prayer]

\* The times of the six events in milliminutes after midnight, <<>> for None,
\* under a given config and city
FaziletMinutesFor(config, city, latitude, longitude, date, timezone_offset) ==
    LET jd == julian_day(date)
        declination == sun_declination(jd)
        solar_noon_minutes == solar_noon_time(longitude, timezone_offset, equation_of_time(jd))
        shadow_factor == IF config.asr_method = "shafi" THEN 1 ELSE 2
        adj(prayer) == MilliPerUnit * EventAdjustment(config, city, latitude, prayer)
        fajr_time_diff ==
            TwilightTimeDiff("fajr", config.fajr_angle, latitude, declination, config)
        sunrise_time_diff == compute_time(SUNRISE_ANGLE, latitude, declination)
        asr_time_diff == asr_time(latitude, declination, shadow_factor)
        maghrib_time_diff == compute_time(SUNRISE_ANGLE, latitude, declination)
        isha_time_diff ==
            TwilightTimeDiff("isha", config.isha_angle, latitude, declination, config)
    IN  [fajr |-> IF fajr_time_diff = <<>> THEN <<>>
                  ELSE <<solar_noon_minutes - fajr_time_diff[1] + adj("fajr")>>,
         sunrise |-> IF sunrise_time_diff = <<>> THEN <<>>
                     ELSE <<solar_noon_minutes - sunrise_time_diff[1] + adj("sunrise")>>,
         dhuhr |-> <<solar_noon_minutes + adj("dhuhr")>>,
         asr |-> IF asr_time_diff = <<>> THEN <<>>
                 ELSE <<solar_noon_minutes + asr_time_diff[1] + adj("asr")>>,
         maghrib |-> IF maghrib_time_diff = <<>> THEN <<>>
                     ELSE <<solar_noon_minutes + maghrib_time_diff[1] + adj("maghrib")>>,
         isha |-> IF isha_time_diff = <<>> THEN <<>>
                  ELSE <<solar_noon_minutes + isha_time_diff[1] + adj("isha")>>]

\* The times under the country's entry of COUNTRY_CONFIGS, city=None; no entry
\* of COUNTRY_CONFIGS has city_adjustments or arctic_adjustments
FaziletMinutes(latitude, longitude, date, timezone_offset, country) ==
    FaziletMinutesFor(FaziletConfig(country), NoCity, latitude, longitude, date,
                      timezone_offset)

\* calculate_prayer_times: "Convert to time strings"
calculate_prayer_times(latitude, longitude, date, timezone_offset, country) ==
    LET times == FaziletMinutes(latitude, longitude, date, timezone_offset, country)
    IN  [prayer \in DOMAIN times |->
            IF times[prayer] = <<>> THEN NA ELSE minutes_to_time_string(times[prayer][1])]

(***************************************************************************)
(* apply_calibration: FaziletCalibration (app/calibrations.py) and the two *)
(* FaziletCalibrator classes (app/calibrator.py, app/main.py).             *)
(***************************************************************************)
MINUTES_PER_CLOCK == 1440

Adjustments(fajr, sunrise, dhuhr, asr, maghrib, isha) ==
    [fajr |-> fajr, sunrise |-> sunrise, dhuhr |-> dhuhr, asr |-> asr,
     maghrib |-> maghrib, isha |-> isha]

\* app/calibrations.py: FaziletCalibration.CALIBRATION_DATABASE
CALIBRATION_DATABASE ==
    [norway |-> Adjustments(8, 0 - 3, 7, 6, 7, 6),
     turkey |-> Adjustments(6, 0 - 8, 11, 12, 10, 12),
     south_korea |-> Adjustments(10, 0 - 3, 8, 7, 10, 7),
     tajikistan |-> Adjustments(10, 0 - 3, 9, 7, 10, 8),
     uzbekistan |-> Adjustments(10, 0 - 3, 8, 8, 10, 8),
     world |-> Adjustments(11, 0 - 2, 8, 6, 8, 7)]

\* app/main.py: FaziletCalibrator.COUNTRY_CALIBRATIONS
MAIN_COUNTRY_CALIBRATIONS ==
    [norway |-> Adjustments(8, 0 - 3, 7, 6, 7, 6),
     turkey |-> Adjustments(6, 0 - 8, 11, 12, 10, 12),
     south_korea |-> Adjustments(10, 0 - 3, 8, 7, 10, 7),
     tajikistan |-> Adjustments(10, 0 - 3, 9, 7, 10, 8),
     uzbekistan |-> Adjustments(10, 0 - 3, 8, 8, 10, 8)]

\* app/calibrator.py: FaziletCalibrator.COUNTRY_CALIBRATIONS
COUNTRY_CALIBRATIONS ==
    [norway |-> Adjustments(8, 0 - 3, 7, 6, 0 - 52, 6),
     turkey |-> Adjustments(6, 0 - 8, 11, 12, 10, 12),
     south_korea |-> Adjustments(10, 0 - 3, 8, 7, 10, 7),
     tajikistan |-> Adjustments(10, 0 - 3, 9, 7, 10, 8),
     uzbekistan |-> Adjustments(10, 0 - 3, 8, 8, 10, 8),
     russia |-> Adjustments(6, 0 - 8, 11, 12, 10, 12)]

\* str.replace(' ', '_') on the country names of the model
ReplaceSpaces(country) ==
    CASE country = "south korea" -> "south_korea"
      [] country = "north korea" -> "north_korea"
      [] OTHER -> country

\* country.lower().replace(' ', '_')
country_lower(country) == ReplaceSpaces(Lower(country))

\* get_calibration falling back to the turkey entry
get_calibration_default_turkey(country) ==
    IF country_lower(country) \in DOMAIN CALIBRATION_DATABASE
    THEN CALIBRATION_DATABASE[country_lower(country)]
    ELSE IF country_lower(country) \in {"norge", "norwegian"}
    THEN CALIBRATION_DATABASE["norway"]
    ELSE IF country_lower(country) \in {"korea", "south_korea", "southkorea"}
    THEN CALIBRATION_DATABASE["south_korea"]
    ELSE CALIBRATION_DATABASE["turkey"]

\* FaziletCalibration.get_calibration(country)['adjustments']
get_calibration(country) ==
    IF country_lower(country) \in DOMAIN CALIBRATION_DATABASE
    THEN CALIBRATION_DATABASE[country_lower(country)]
    ELSE IF country_lower(country) \in {"norge", "norwegian"}
    THEN CALIBRATION_DATABASE["norway"]
    ELSE IF country_lower(country) \in {"türkiye", "turkiye"}
    THEN CALIBRATION_DATABASE["turkey"]
    ELSE IF country_lower(country) \in {"korea", "south_korea", "southkorea"}
    THEN CALIBRATION_DATABASE["south_korea"]
    ELSE CALIBRATION_DATABASE["world"]

\* The selection at the head of FaziletCalibrator.apply_calibration
CalibratorAdjustments(table, country) ==
    IF country_lower(country) \in DOMAIN table THEN table[country_lower(country)]
    ELSE IF country_lower(country) \in {"norge", "norwegian"} THEN table["norway"]
    ELSE IF country_lower(country) \in {"türkiye", "turkiye"} THEN table["turkey"]
    ELSE table["turkey"]

\* The loop body with the result clamped to the day instead of wrapped
CalibrateClock_clamped(time_str, adjustment) ==
    LET sum == 60 * ParseClock(time_str).hour + ParseClock(time_str).minute + adjustment
        total_minutes == IF sum < 0 THEN 0
                         ELSE IF sum >= MINUTES_PER_CLOCK THEN MINUTES_PER_CLOCK - 1
                         ELSE sum
    IN  FormatClock(total_minutes \div 60, total_minutes % 60)

\* The loop body without the reduction modulo 1440
CalibrateClock_without_wrap(time_str, adjustment) ==
    LET total_minutes == 60 * ParseClock(time_str).hour + ParseClock(time_str).minute
                         + adjustment
    IN  FormatClock(total_minutes \div 60, total_minutes % 60)

\* The loop body: parse, add the adjustment, wrap around the day, format
CalibrateClock(time_str, adjustment) ==
    LET total_minutes == (60 * ParseClock(time_str).hour + ParseClock(time_str).minute
                          + adjustment) % MINUTES_PER_CLOCK
    IN  FormatClock(total_minutes \div 60, total_minutes % 60)

\* app/calibrations.py: FaziletCalibration.apply_calibration
Calibrations_apply_calibration(base_times, country) ==
    LET adjustments == get_calibration(country)
    IN  [prayer \in DOMAIN base_times |->
            IF base_times[prayer] = NA THEN NA
            ELSE CalibrateClock(base_times[prayer],
                                IF prayer \in DOMAIN adjustments THEN adjustments[prayer]
                                ELSE 0)]

\* app/calibrator.py and app/main.py: FaziletCalibrator.apply_calibration
Calibrator_apply_calibration(table, times, country) ==
    LET adjustments == CalibratorAdjustments(table, country)
    IN  [prayer \in DOMAIN times |->
            IF prayer \notin DOMAIN adjustments \/ times[prayer] = NA THEN times[prayer]
            ELSE CalibrateClock(times[prayer], adjustments[prayer])]

Implementations == {"calibrations.py", "calibrator.py", "main.py"}

apply_calibration(implementation, times, country) ==
    CASE implementation = "calibrations.py" -> Calibrations_apply_calibration(times, country)
      [] implementation = "calibrator.py" ->
            Calibrator_apply_calibration(COUNTRY_CALIBRATIONS, times, country)
      [] implementation = "main.py" ->
            Calibrator_apply_calibration(MAIN_COUNTRY_CALIBRATIONS, times, country)

\* No result yet: the empty string for every event
NoTimes == [prayer \in {Events[i] : i \in DOMAIN Events} |-> <<>>]

NoDate == [year |-> 2000, month |-> 1, day |-> 1]

FaziletIdle ==
    /\ fz_in = [latitude |-> 0, longitude |-> 0, date |-> NoDate,
                timezone_offset |-> 0, country |-> "turkey"]
    /\ fz_out = NoTimes

CalibIdle ==
    /\ cal_in = [implementation |-> "main.py", country |-> "turkey", times |-> NoTimes]
    /\ cal_out = NoTimes

CalcIdle == FaziletIdle /\ CalibIdle

RoundTripIdle ==
    rt = [base |-> 0, n |-> 0, stage |-> "idle", forward |-> <<>>, back |-> <<>>]

CallIdle == call = [stage |-> "idle"]

MoreIdle == RoundTripIdle /\ CallIdle

(***************************************************************************)
(* The caches under arbitrary calls.  last records the last call: the      *)
(* operation, its key, the branch it took, what it returned, the key it    *)
(* evicted and the key that was the least recently accessed before it.     *)
(* recency lists the stored keys by their most recent access (insertion,   *)
(* overwrite by set, successful get), the oldest first.                    *)
(***************************************************************************)
NoKey == 0

NoCall == [op |-> "none", key |-> NoKey, ret |-> None, branch |-> "none",
           evicted |-> NoKey, lru |-> NoKey]

Touch(r, k) == Append(SelectSeq(r, LAMBDA x : x # k), k)

Forget(r, k) == SelectSeq(r, LAMBDA x : x # k)

Oldest(r) == IF r = <<>> THEN NoKey ELSE Head(r)

\* The key a set removes to make room, NoKey when it removes none
EvictedKey(before, after) ==
    IF OD_keys(before) \subseteq OD_keys(after) THEN NoKey
    ELSE CHOOSE k \in OD_keys(before) : k \notin OD_keys(after)

GetCall(key, r) ==
    [op |-> "get", key |-> key, ret |-> r.ret, branch |-> r.branch,
     evicted |-> NoKey, lru |-> Oldest(recency)]

SetCall(key, evicted) ==
    [op |-> "set", key |-> key, ret |-> None,
     branch |-> IF evicted = NoKey THEN "stored" ELSE "evicted",
     evicted |-> evicted, lru |-> Oldest(recency)]

DeleteCall(key) ==
    [op |-> "delete", key |-> key, ret |-> None, branch |-> "deleted",
     evicted |-> NoKey, lru |-> Oldest(recency)]

RecencyAfterGet(key, r) ==
    IF r.branch = "hit" THEN Touch(recency, key)
    ELSE IF r.branch = "expired" THEN Forget(recency, key)
    ELSE recency

Tick ==
    /\ now < MaxTicks * TickMinutes
    /\ now' = now + TickMinutes
    /\ UNCHANGED <<unit, cacheVars, dailyVars, ipVars, calcVars, moreVars>>

MainGet(key) ==
    /\ unit = "main"
    /\ main_cache.hits + main_cache.misses < MaxLookups
    /\ LET r == Main_get(main_cache, key, MaxAgeOf(key), now)
       IN  /\ main_cache' = r.c
           /\ last' = GetCall(key, r)
           /\ recency' = RecencyAfterGet(key, r)
    /\ UNCHANGED <<unit, now, pro_cache, dailyVars, ipVars, calcVars, moreVars>>

MainSet(key, value) ==
    /\ unit = "main"
    /\ main_cache' = Main_set(main_cache, key, value, MaxAgeOf(key), now)
    /\ LET evicted == EvictedKey(main_cache.cache, Main_evict(main_cache).cache)
       IN  /\ last' = SetCall(key, evicted)
           /\ recency' = Touch(Forget(recency, evicted), key)
    /\ UNCHANGED <<unit, now, pro_cache, dailyVars, ipVars, calcVars, moreVars>>

MainDelete(key) ==
    /\ unit = "main"
    /\ main_cache' = Main_delete(main_cache, key)
    /\ last' = DeleteCall(key)
    /\ recency' = Forget(recency, key)
    /\ UNCHANGED <<unit, now, pro_cache, dailyVars, ipVars, calcVars, moreVars>>

ProGet(key) ==
    /\ unit = "pro"
    /\ pro_cache.stats.hits + pro_cache.stats.misses < MaxLookups
    /\ LET r == Pro_get_with_metadata(pro_cache, key, now)
       IN  /\ pro_cache' = r.c
           /\ last' = GetCall(key, r)
           /\ recency' = RecencyAfterGet(key, r)
    /\ UNCHANGED <<unit, now, main_cache, dailyVars, ipVars, calcVars, moreVars>>

ProSet(key, data, max_sets) ==
    /\ unit = "pro"
    /\ pro_cache.stats.sets < max_sets
    /\ pro_cache' = Pro_set_with_metadata(pro_cache, key, data, TtlSecondsOf(key), now)
    /\ LET evicted == EvictedKey(pro_cache.data_cache, Pro_evict(pro_cache).data_cache)
       IN  /\ last' = SetCall(key, evicted)
           /\ recency' = Touch(Forget(recency, evicted), key)
    /\ UNCHANGED <<unit, now, main_cache, dailyVars, ipVars, calcVars, moreVars>>

ProDelete(key) ==
    /\ unit = "pro"
    /\ pro_cache' = Pro_delete(pro_cache, key)
    /\ last' = DeleteCall(key)
    /\ recency' = Forget(recency, key)
    /\ UNCHANGED <<unit, now, main_cache, dailyVars, ipVars, calcVars, moreVars>>

\* Both classes with the clock running: expiry, counters, capacity.
InitTTL ==
    /\ unit \in {"main", "pro"}
    /\ now = 0
    /\ \E m \in 1..TtlMaxSize :
         /\ main_cache = Main_init(m)
         /\ pro_cache = Pro_init(m)
    /\ last = NoCall
    /\ recency = <<>>
    /\ DailyIdle
    /\ IphoneIdle
    /\ CalcIdle
    /\ MoreIdle

NextTTL ==
    \/ Tick
    \/ \E k \in TtlKeys : MainGet(k)
    \/ \E k \in TtlKeys : MainSet(k, PayloadOf(k))
    \/ \E k \in TtlKeys : MainDelete(k)
    \/ \E k \in TtlKeys : ProGet(k)
    \/ \E k \in TtlKeys : ProSet(k, PayloadOf(k), TtlMaxSets)
    \/ \E k \in TtlKeys : ProDelete(k)

SpecTTL == InitTTL /\ [][NextTTL]_vars

(***************************************************************************)
(* The cache the run exercises, seen through the fields of its class.      *)
(***************************************************************************)
StoredSeq == IF unit = "main" THEN main_cache.cache ELSE pro_cache.data_cache

StoredKeys == OD_keys(StoredSeq)

MetaKeys ==
    IF unit = "main" THEN DOMAIN main_cache.timestamps ELSE DOMAIN pro_cache.metadata

InsertedAt(k) ==
    IF unit = "main" THEN main_cache.timestamps[k] ELSE pro_cache.metadata[k].timestamp

Hits == IF unit = "main" THEN main_cache.hits ELSE pro_cache.stats.hits

Misses == IF unit = "main" THEN main_cache.misses ELSE pro_cache.stats.misses

Capacity == IF unit = "main" THEN main_cache.max_size ELSE pro_cache.max_size

\* The lifetime of a stored key in minutes: the max_age_minutes its lookups
\* pass (main.py), the ttl stored with it, in seconds (cache.py)
TtlMinutes(k) ==
    IF unit = "main" THEN MaxAgeOf(k) ELSE pro_cache.metadata[k].ttl \div 60

AgeMinutes(k) == now - InsertedAt(k)

GetStep(k) == last'.op = "get" /\ last'.key = k /\ Hits' + Misses' = Hits + Misses + 1

SetStep(k) == last'.op = "set" /\ last'.key = k /\ now' = now

(***************************************************************************)
(* C2: a lookup of a present key whose age is strictly greater than its    *)
(* TTL returns no value, removes the entry together with its timestamp or  *)
(* metadata and counts one miss, exactly as a lookup of an absent key      *)
(* returns no value and counts one miss; a lookup with age <= TTL returns  *)
(* the stored value and counts one hit; a store of a key that is not       *)
(* present (so also the store after an expiry) leaves exactly one entry    *)
(* for the key, inserted at the time of the store.                         *)
(***************************************************************************)
C2_Lookup(k) ==
    LET present == k \in StoredKeys /\ k \in MetaKeys
        stale == present /\ AgeMinutes(k) > TtlMinutes(k)
    IN  /\ stale =>
              /\ last'.ret = None
              /\ k \notin StoredKeys' /\ k \notin MetaKeys'
              /\ Len(StoredSeq') = Len(StoredSeq) - 1
              /\ Misses' = Misses + 1 /\ Hits' = Hits
        /\ k \notin StoredKeys =>
              /\ last'.ret = None
              /\ k \notin StoredKeys' /\ k \notin MetaKeys'
              /\ StoredSeq' = StoredSeq
              /\ Misses' = Misses + 1 /\ Hits' = Hits
        /\ (present /\ ~stale) =>
              /\ last'.ret = OD_value(StoredSeq, k)
              /\ k \in StoredKeys' /\ k \in MetaKeys'
              /\ Hits' = Hits + 1 /\ Misses' = Misses

C2_Store(k) ==
    k \notin StoredKeys =>
        /\ Cardinality({i \in DOMAIN StoredSeq' : StoredSeq'[i].key = k}) = 1
        /\ k \in MetaKeys'
        /\ InsertedAt(k)' = now

\* C2: every lookup step and every store step behaves as stated above
C2_TTLExpiry ==
    [][\A k \in Keys : /\ GetStep(k) => C2_Lookup(k)
                       /\ SetStep(k) => C2_Store(k)]_vars

\* a lookup found its key expired and removed it
C2_Witness ==
    /\ last.op = "get" /\ last.branch = "expired" /\ last.ret = None
    /\ last.key \notin StoredKeys
    /\ Misses >= 1

(***************************************************************************)
(* C4: for a cache constructed with max_size >= 1, after any sequence of   *)
(* get, set and delete calls the number of stored entries is at most       *)
(* max_size.                                                               *)
(***************************************************************************)
C4_CapacityBound ==
    /\ Len(main_cache.cache) <= main_cache.max_size
    /\ Len(pro_cache.data_cache) <= pro_cache.max_size

\* a set has just evicted an entry and the cache is full again
C4_Witness ==
    /\ last.op = "set" /\ last.branch = "evicted"
    /\ Capacity >= 1
    /\ Len(StoredSeq) = Capacity

\* Both classes under capacity pressure, the clock standing still.
InitLRU ==
    /\ unit \in {"main", "pro"}
    /\ now = 0
    /\ \E m \in 1..MaxSize :
         /\ main_cache = Main_init(m)
         /\ pro_cache = Pro_init(m)
    /\ last = NoCall
    /\ recency = <<>>
    /\ DailyIdle
    /\ IphoneIdle
    /\ CalcIdle
    /\ MoreIdle

NextLRU ==
    \/ \E k \in Keys : MainGet(k)
    \/ \E k \in Keys : MainSet(k, PayloadOf(k))
    \/ \E k \in Keys : MainDelete(k)
    \/ \E k \in Keys : ProGet(k)
    \/ \E k \in Keys : ProSet(k, PayloadOf(k), MaxSets)
    \/ \E k \in Keys : ProDelete(k)

SpecLRU == InitLRU /\ [][NextLRU]_vars

(***************************************************************************)
(* C3: whenever set stores into a cache that already holds max_size        *)
(* entries, the entry removed is the one whose most recent access (its     *)
(* insertion, its last overwrite by set, or its last successful get) is    *)
(* the oldest among all stored entries.                                    *)
(***************************************************************************)
C3_StrictLRU ==
    (last.op = "set" /\ last.branch = "evicted") => last.evicted = last.lru

(***************************************************************************)
(* The daily endpoint under concurrent clients.  The handler is a          *)
(* coroutine without an await: once started it runs to completion, so the  *)
(* requests in progress are handled one after another, in any order.       *)
(***************************************************************************)
Submit(c, r) ==
    /\ pc[c] = "idle"
    /\ pc' = [pc EXCEPT ![c] = "pending"]
    /\ request' = [request EXCEPT ![c] = r]
    /\ UNCHANGED <<unit, now, cacheVars, response, calculated, leader, ipVars, calcVars, moreVars>>

\* Clients pending for the key a calculation has just run for
Followers(c) ==
    {d \in Clients \ {c} : /\ pc[d] = "pending"
                           /\ DailyKey(request[d]) = DailyKey(request[c])
                           /\ leader[d] = NoClient}

Handle(c) ==
    /\ pc[c] = "pending"
    /\ LET h == get_daily_prayer_times(main_cache, request[c], now)
       IN  /\ main_cache' = h.c
           /\ response' = [response EXCEPT ![c] = h.response]
           /\ calculated' = [calculated EXCEPT ![c] = h.calculated]
           /\ leader' = [d \in Clients |->
                            IF h.calculated /\ d \in Followers(c) THEN c ELSE leader[d]]
    /\ pc' = [pc EXCEPT ![c] = "done"]
    /\ UNCHANGED <<unit, now, pro_cache, last, recency, request, ipVars, calcVars, moreVars>>

InitDaily ==
    /\ unit = "daily"
    /\ now = 0
    /\ \E m \in 1..DailyMaxSize : main_cache = Main_init(m)
    /\ pro_cache = Pro_init(1)
    /\ last = NoCall
    /\ recency = <<>>
    /\ DailyIdle
    /\ IphoneIdle
    /\ CalcIdle
    /\ MoreIdle

NextDaily ==
    \/ Tick
    \/ \E c \in Clients, r \in PrayerTimesRequest : Submit(c, r)
    \/ \E c \in Clients : Handle(c)

SpecDaily == InitDaily /\ [][NextDaily]_vars

\* The stored entry a request would be answered from: present and not older
\* than the daily lifetime
FreshEntry(r) ==
    /\ DailyKey(r) \in OD_keys(main_cache.cache)
    /\ now - main_cache.timestamps[DailyKey(r)] <= IPHONE_MAX_AGE

(***************************************************************************)
(* C1: once the daily endpoint has computed and stored the result of a     *)
(* request, a later identical request handled while the entry is still     *)
(* stored and within its 1440-minute lifetime is answered from the cache:  *)
(* the calculator is not invoked, and the request succeeds with the stored *)
(* prayer_times and cache_hit = true.                                      *)
(***************************************************************************)
C1_DailyCacheHit ==
    [][\A c \in Clients :
         (pc[c] = "pending" /\ pc'[c] = "done" /\ FreshEntry(request[c])) =>
             /\ ~calculated'[c]
             /\ response'[c].status = 200
             /\ response'[c].body.cache_hit = TRUE
             /\ response'[c].body.prayer_times =
                    OD_value(main_cache.cache, DailyKey(request[c])).prayer_times]_vars

(***************************************************************************)
(* C6: when a calculation for a cold key runs while other requests for the *)
(* same key are in progress, those requests do not calculate again: each   *)
(* succeeds with the prayer_times of that one calculation.                 *)
(***************************************************************************)
C6_SingleFlight ==
    \A c \in Clients :
        (pc[c] = "done" /\ leader[c] # NoClient) =>
            /\ ~calculated[c]
            /\ response[c].status = 200
            /\ response[c].body.prayer_times = response[leader[c]].body.prayer_times

(***************************************************************************)
(* The worker-side cache (app/task.py stores through cache_prayer_times)   *)
(* for one location, over the requested dates, with the clock running.     *)
(***************************************************************************)
IpLatitude == 59
IpLongitude == 10
IpCountry == "norway"

IpKey(d) == generate_cache_key(IpLatitude, IpLongitude, d, IpCountry)

\* The result task.py stores for a date
IpResult(d) == <<"prayer_times", d>>

IpStore(d) ==
    /\ unit = "iphone"
    /\ ip_cache' = Ip_cache_prayer_times(ip_cache, IpLatitude, IpLongitude, d,
                                         IpCountry, IpResult(d), now)
    /\ ip_expire' = Dict_setitem(ip_expire, IpKey(d), SmartExpiration(d, now))
    /\ ip_last' = [op |-> "store", date |-> d, present |-> IpKey(d) \in DOMAIN ip_cache._cache,
                   found |-> FALSE, age |-> 0, expire |-> SmartExpiration(d, now)]
    /\ UNCHANGED <<unit, now, cacheVars, dailyVars, calcVars, moreVars>>

IpLookup(d) ==
    /\ unit = "iphone"
    /\ ip_cache._hits + ip_cache._misses < MaxLookups
    /\ LET r == Ip_get_prayer_times(ip_cache, IpLatitude, IpLongitude, d, IpCountry, now)
           present == IpKey(d) \in DOMAIN ip_cache._cache
       IN  /\ ip_cache' = r.c
           /\ ip_last' = [op |-> "lookup", date |-> d, present |-> present,
                          found |-> r.found,
                          age |-> IF present THEN now - ip_cache._timestamps[IpKey(d)] ELSE 0,
                          expire |-> IF present THEN ip_expire[IpKey(d)] ELSE 0]
    /\ UNCHANGED <<unit, now, cacheVars, dailyVars, ip_expire, calcVars, moreVars>>

InitIphone ==
    /\ unit = "iphone"
    /\ now = 0
    /\ main_cache = Main_init(1)
    /\ pro_cache = Pro_init(1)
    /\ last = NoCall
    /\ recency = <<>>
    /\ DailyIdle
    /\ IphoneIdle
    /\ CalcIdle
    /\ MoreIdle

NextIphone ==
    \/ Tick
    \/ \E d \in IpDates : IpStore(d)
    \/ \E d \in IpDates : IpLookup(d)

SpecIphone == InitIphone /\ [][NextIphone]_vars

(***************************************************************************)
(* C5: an entry stored by cache_prayer_times lives for the expire_minutes  *)
(* selected at store time from its date (1440 for today, 10080 for a       *)
(* future date, 525600 for a past date): get_prayer_times returns a stored *)
(* entry exactly when its age does not exceed that lifetime.               *)
(***************************************************************************)
C5_DateAwareTTL ==
    (ip_last.op = "lookup" /\ ip_last.present) =>
        /\ ip_last.expire \in {EXPIRE_TODAY, EXPIRE_FUTURE, EXPIRE_PAST}
        /\ ip_last.found <=> (ip_last.age <= ip_last.expire)

(***************************************************************************)
(* FaziletMethodology.calculate_prayer_times over locations, dates,        *)
(* timezone offsets and countries.                                         *)
(***************************************************************************)
\* Every fifth degree from pole to pole, and Oslo, Istanbul, Tromso, Paris
FzLatitudes ==
    {5000 * d : d \in (0 - 18)..18} \cup {59914, 41008, 69649, 48857, 48000}
FzLongitudes == {0, 10752, 28978}
FzTimezones == {0, 2, 3}
FzDates ==
    {[year |-> 2026, month |-> 6, day |-> 21], [year |-> 2026, month |-> 12, day |-> 21],
     [year |-> 2026, month |-> 3, day |-> 20], [year |-> 2026, month |-> 1, day |-> 8]}
FzCountries == {"norway", "turkey", "world", "Norway", "atlantis"}

FzInputs ==
    [latitude : FzLatitudes, longitude : FzLongitudes, date : FzDates,
     timezone_offset : FzTimezones, country : FzCountries]

FzCalculate ==
    /\ unit = "fazilet"
    /\ fz_out = NoTimes
    /\ fz_out' = calculate_prayer_times(fz_in.latitude, fz_in.longitude, fz_in.date,
                                        fz_in.timezone_offset, fz_in.country)
    /\ UNCHANGED <<unit, now, cacheVars, dailyVars, ipVars, fz_in, cal_in, cal_out, moreVars>>

InitFazilet ==
    /\ unit = "fazilet"
    /\ now = 0
    /\ main_cache = Main_init(1)
    /\ pro_cache = Pro_init(1)
    /\ last = NoCall
    /\ recency = <<>>
    /\ DailyIdle
    /\ IphoneIdle
    /\ fz_in \in FzInputs
    /\ fz_out = NoTimes
    /\ CalibIdle
    /\ MoreIdle

NextFazilet == FzCalculate

SpecFazilet == InitFazilet /\ [][NextFazilet]_vars

FzDone == fz_out # NoTimes

FzConfig == FaziletConfig(fz_in.country)

FzDeclination == sun_declination(julian_day(fz_in.date))

FzSolarNoon ==
    solar_noon_time(fz_in.longitude, fz_in.timezone_offset,
                    equation_of_time(julian_day(fz_in.date)))

\* The hour angle of sunrise and sunset, as a time
FzSunriseDiff == compute_time(SUNRISE_ANGLE, fz_in.latitude, FzDeclination)

\* The depression angle of Fajr or Isha is not reached on that day
Unreachable(prayer) ==
    compute_time(0 - (IF prayer = "fajr" THEN FzConfig.fajr_angle ELSE FzConfig.isha_angle),
                 fz_in.latitude, FzDeclination) = <<>>

\* The event was produced by the seventh-of-night fallback
FallbackUsed(prayer) == FzDone /\ Unreachable(prayer) /\ fz_out[prayer] # NA

AllDefined == FzDone /\ \A i \in DOMAIN Events : fz_out[Events[i]] # NA

(***************************************************************************)
(* C7: whenever calculate_prayer_times returns a clock time for all six    *)
(* events, the times satisfy Fajr < Sunrise < Dhuhr < Asr < Maghrib < Isha *)
(* as times of day.                                                        *)
(***************************************************************************)
C7_Ordering ==
    AllDefined =>
        \A i \in 1..(Len(Events) - 1) :
            TimeOfDay(fz_out[Events[i]]) < TimeOfDay(fz_out[Events[i + 1]])

(***************************************************************************)
(* C8: when the depression angle of Fajr (resp. Isha) is unreachable, the  *)
(* event is a clock time if and only if the country's method is            *)
(* angle_based, |latitude| is above the country's threshold and the        *)
(* sunrise hour angle is defined, and is N/A otherwise; the clock time     *)
(* returned then lies, before the country's adjustment minutes, at         *)
(* sunriseOffset - nightDuration/7 before solar noon (resp.                *)
(* sunsetOffset + nightDuration/7 after it) with nightDuration = 2 x the   *)
(* sunrise offset, that is at 5/7 (resp. 9/7) of the sunrise offset, to    *)
(* the minute.                                                             *)
(***************************************************************************)
FallbackRequired ==
    /\ FzConfig.high_latitude_method = "angle_based"
    /\ Abs(fz_in.latitude) > FzConfig.high_latitude_threshold
    /\ FzSunriseDiff # <<>>

\* Seven times the instant the fallback prescribes, in milliminutes
SeventhOfNightInstant(prayer) ==
    7 * (FzSolarNoon + MilliPerUnit * FzConfig.adjustment_minutes[prayer])
    + (IF prayer = "fajr" THEN 0 - 5 * FzSunriseDiff[1] ELSE 9 * FzSunriseDiff[1])

\* The returned clock time is within a minute of that instant
AtSeventhOfNight(prayer) ==
    LET day == 7 * MINUTES_PER_CLOCK * MilliPerUnit
        late == (SeventhOfNightInstant(prayer)
                 - 7 * MilliPerUnit * TimeOfDay(fz_out[prayer])) % day
    IN  late <= 7 * MilliPerUnit \/ late >= day - 7 * MilliPerUnit

\* C8: the fallback applies exactly when required, at the seventh of the night
C8_FallbackApplies ==
    FzDone =>
        \A prayer \in {"fajr", "isha"} :
            Unreachable(prayer) =>
                /\ fz_out[prayer] # NA <=> FallbackRequired
                /\ fz_out[prayer] # NA => AtSeventhOfNight(prayer)

\* Oslo-like case: the angle is unreachable and the fallback produced Fajr
C8_Witness ==
    /\ FallbackUsed("fajr") /\ FallbackUsed("isha")
    /\ FallbackRequired

(***************************************************************************)
(* C9: whenever Fajr or Isha is produced by the seventh-of-night fallback, *)
(* the returned times satisfy Fajr < Sunrise and Maghrib < Isha as times   *)
(* of day.                                                                 *)
(***************************************************************************)
C9_FallbackKeepsOrder ==
    /\ FallbackUsed("fajr") => TimeOfDay(fz_out.fajr) < TimeOfDay(fz_out.sunrise)
    /\ FallbackUsed("isha") => TimeOfDay(fz_out.maghrib) < TimeOfDay(fz_out.isha)

(***************************************************************************)
(* apply_calibration of the three implementations over countries and base  *)
(* values.                                                                 *)
(***************************************************************************)
CalBaseValues ==
    {NA, FormatClock(0, 2), FormatClock(12, 30), FormatClock(23, 58)}
CalCountries == {"norway", "Turkey", "norge", "South Korea", "atlantis", "world", "russia"}

CalInputs ==
    [implementation : Implementations, country : CalCountries,
     times : [fajr : CalBaseValues, sunrise : CalBaseValues, dhuhr : CalBaseValues,
              asr : CalBaseValues, maghrib : CalBaseValues, isha : CalBaseValues]]

CalApply ==
    /\ unit = "calibration"
    /\ cal_out = NoTimes
    /\ cal_out' = apply_calibration(cal_in.implementation, cal_in.times, cal_in.country)
    /\ UNCHANGED <<unit, now, cacheVars, dailyVars, ipVars, fz_in, fz_out, cal_in, moreVars>>

InitCalibration ==
    /\ unit = "calibration"
    /\ now = 0
    /\ main_cache = Main_init(1)
    /\ pro_cache = Pro_init(1)
    /\ last = NoCall
    /\ recency = <<>>
    /\ DailyIdle
    /\ IphoneIdle
    /\ FaziletIdle
    /\ cal_in \in CalInputs
    /\ cal_out = NoTimes
    /\ MoreIdle

NextCalibration == CalApply

SpecCalibration == InitCalibration /\ [][NextCalibration]_vars

CalDone == cal_out # NoTimes

\* The signed minutes of the country the implementation selects
SelectedAdjustment(prayer) ==
    CASE cal_in.implementation = "calibrations.py" -> get_calibration(cal_in.country)[prayer]
      [] cal_in.implementation = "calibrator.py" ->
            CalibratorAdjustments(COUNTRY_CALIBRATIONS, cal_in.country)[prayer]
      [] cal_in.implementation = "main.py" ->
            CalibratorAdjustments(MAIN_COUNTRY_CALIBRATIONS, cal_in.country)[prayer]

\* HH:MM with HH in 00..23 and MM in 00..59
WellFormedClock(time_str) ==
    /\ Len(time_str) = 5
    /\ time_str[3] = ":"
    /\ \A i \in {1, 2, 4, 5} : \E d \in DOMAIN DigitChars : time_str[i] = DigitChars[d]
    /\ ParseClock(time_str).hour \in 0..23
    /\ ParseClock(time_str).minute \in 0..59

(***************************************************************************)
(* C10: apply_calibration returns N/A for each event whose base value is   *)
(* N/A, and for each event with base value HH:MM the clock time of         *)
(* (60*HH + MM + adjustment) mod 1440, written with a two-digit hour       *)
(* 00..23 and a two-digit minute 00..59, where adjustment is the signed    *)
(* minutes of the selected country for that event.                         *)
(***************************************************************************)
C10_CalibrationResult ==
    CalDone =>
        \A i \in DOMAIN Events :
            LET prayer == Events[i]
                base == cal_in.times[prayer]
            IN  /\ base = NA => cal_out[prayer] = NA
                /\ base # NA =>
                      /\ WellFormedClock(cal_out[prayer])
                      /\ TimeOfDay(cal_out[prayer]) =
                            (60 * ParseClock(base).hour + ParseClock(base).minute
                             + SelectedAdjustment(prayer)) % 1440

\* a time just after midnight moved back across it, next to an N/A left alone
C10_Witness ==
    /\ CalDone
    /\ cal_in.times.sunrise = FormatClock(0, 2)
    /\ cal_out.sunrise = FormatClock(23, 59)
    /\ cal_in.times.fajr = NA /\ cal_out.fajr = NA

(***************************************************************************)
(* The calibration arithmetic applied to one base time with adjustment +N  *)
(* and then to the result with adjustment -N.                              *)
(***************************************************************************)
RtAdjustments == {0 - 2881, 0 - 1440, 0 - 61, 0 - 52, 0 - 1, 0, 1, 12, 59, 1439, 1440, 2000}

\* The base time as the clock string the calculators hand to apply_calibration
RtBaseClock == FormatClock(rt.base \div 60, rt.base % 60)

RtForward ==
    /\ unit = "roundtrip"
    /\ rt.stage = "base"
    /\ rt' = [rt EXCEPT !.stage = "forward",
                        !.forward = CalibrateClock(RtBaseClock, rt.n)]
    /\ UNCHANGED <<unit, now, cacheVars, dailyVars, ipVars, calcVars, call>>

RtBackward ==
    /\ unit = "roundtrip"
    /\ rt.stage = "forward"
    /\ rt' = [rt EXCEPT !.stage = "back",
                        !.back = CalibrateClock(rt.forward, 0 - rt.n)]
    /\ UNCHANGED <<unit, now, cacheVars, dailyVars, ipVars, calcVars, call>>

InitRoundTrip ==
    /\ unit = "roundtrip"
    /\ now = 0
    /\ main_cache = Main_init(1)
    /\ pro_cache = Pro_init(1)
    /\ last = NoCall
    /\ recency = <<>>
    /\ DailyIdle
    /\ IphoneIdle
    /\ CalcIdle
    /\ CallIdle
    /\ \E t \in 0..(MINUTES_PER_CLOCK - 1), n \in RtAdjustments :
          rt = [base |-> t, n |-> n, stage |-> "base", forward |-> <<>>, back |-> <<>>]

NextRoundTrip == RtForward \/ RtBackward

SpecRoundTrip == InitRoundTrip /\ [][NextRoundTrip]_vars

(***************************************************************************)
(* C11: for every base time of day t in 0..1439 and every integer N,       *)
(* applying the calibration arithmetic with adjustment +N and then with    *)
(* adjustment -N gives the clock time of t again.                          *)
(***************************************************************************)
C11_RoundTrip ==
    rt.stage = "back" => rt.back = RtBaseClock /\ TimeOfDay(rt.back) = rt.base

\* 23:30 moved by +59 across midnight to 00:29 and back
C11_Witness ==
    /\ rt.stage = "back" /\ rt.base = 1410 /\ rt.n = 59
    /\ rt.forward = FormatClock(0, 29)
    /\ rt.back = FormatClock(23, 30)


(***************************************************************************)
(* FaziletMethodology.calculate_prayer_times: which adjustment is added.   *)
(* No entry of COUNTRY_CONFIGS in the source carries city_adjustments or   *)
(* arctic_adjustments; the function reads both keys, so the configs here   *)
(* are the norway and turkey entries and the norway entry extended with    *)
(* the optional keys.  An override dict may lack events and may be empty.  *)
(***************************************************************************)
OsloOverrides == [fajr |-> 3, maghrib |-> 0, isha |-> 0 - 4]
ArcticOverrides == [fajr |-> 20, sunrise |-> 1, dhuhr |-> 2, isha |-> 0 - 15]

AdjConfigs ==
    [norway |-> COUNTRY_CONFIGS.norway,
     turkey |-> COUNTRY_CONFIGS.turkey,
     norway_city |->
        [city_adjustments |-> [oslo |-> OsloOverrides, tromso |-> <<>>]]
        @@ COUNTRY_CONFIGS.norway,
     norway_arctic |->
        [arctic_adjustments |-> [latitude_threshold |-> 66000,
                                 adjustment_minutes |-> ArcticOverrides]]
        @@ COUNTRY_CONFIGS.norway,
     norway_arctic_default |->
        [arctic_adjustments |-> [adjustment_minutes |-> ArcticOverrides]]
        @@ COUNTRY_CONFIGS.norway,
     norway_arctic_empty |->
        [arctic_adjustments |-> [adjustment_minutes |-> <<>>]]
        @@ COUNTRY_CONFIGS.norway,
     norway_both |->
        [city_adjustments |-> [oslo |-> OsloOverrides, tromso |-> <<>>],
         arctic_adjustments |-> [latitude_threshold |-> 59000,
                                 adjustment_minutes |-> ArcticOverrides]]
        @@ COUNTRY_CONFIGS.norway]

AdjCities == {NoCity, <<"Oslo">>, <<"oslo">>, <<"Tromso">>, <<"bergen">>}
AdjLatitudes == {41008, 59914, 64999, 65000, 66000, 69649, 0 - 65000, 0 - 70000}
AdjDates == {[year |-> 2026, month |-> 3, day |-> 20],
             [year |-> 2026, month |-> 6, day |-> 21]}
AdjLongitude == 10752
AdjTimezone == 2

\* The config with no overrides and every base adjustment zero
Unadjusted(config) ==
    [high_latitude_method |-> config.high_latitude_method,
     high_latitude_threshold |-> config.high_latitude_threshold,
     fajr_angle |-> config.fajr_angle, isha_angle |-> config.isha_angle,
     asr_method |-> config.asr_method,
     adjustment_minutes |-> [fajr |-> 0, sunrise |-> 0, dhuhr |-> 0,
                             asr |-> 0, maghrib |-> 0, isha |-> 0]]

AdjCalculate ==
    /\ unit = "adjustment"
    /\ call.stage = "called"
    /\ call' = [call EXCEPT
                   !.stage = "returned",
                   !.times = FaziletMinutesFor(AdjConfigs[call.config], call.city,
                                               call.latitude, AdjLongitude, call.date,
                                               AdjTimezone),
                   !.raw = FaziletMinutesFor(Unadjusted(AdjConfigs[call.config]), NoCity,
                                             call.latitude, AdjLongitude, call.date,
                                             AdjTimezone)]
    /\ UNCHANGED <<unit, now, cacheVars, dailyVars, ipVars, calcVars, rt>>

InitAdjustment ==
    /\ unit = "adjustment"
    /\ now = 0
    /\ main_cache = Main_init(1)
    /\ pro_cache = Pro_init(1)
    /\ last = NoCall
    /\ recency = <<>>
    /\ DailyIdle
    /\ IphoneIdle
    /\ CalcIdle
    /\ RoundTripIdle
    /\ \E config \in DOMAIN AdjConfigs, city \in AdjCities,
          latitude \in AdjLatitudes, date \in AdjDates :
          call = [stage |-> "called", config |-> config, city |-> city,
                  latitude |-> latitude, date |-> date, times |-> <<>>, raw |-> <<>>]

NextAdjustment == AdjCalculate

SpecAdjustment == InitAdjustment /\ [][NextAdjustment]_vars

AdjReturned == unit = "adjustment" /\ call.stage = "returned"

\* The given city has an override for the event
CityOverrides(prayer) ==
    LET config == AdjConfigs[call.config]
    IN  /\ call.city # NoCity
        /\ "city_adjustments" \in DOMAIN config
        /\ Lower(call.city[1]) \in DOMAIN config.city_adjustments
        /\ prayer \in DOMAIN config.city_adjustments[Lower(call.city[1])]

\* The country defines an arctic override for the event and the latitude is
\* at or beyond its threshold
ArcticOverrideApplies(prayer) ==
    LET config == AdjConfigs[call.config]
    IN  /\ "arctic_adjustments" \in DOMAIN config
        /\ prayer \in DOMAIN config.arctic_adjustments.adjustment_minutes
        /\ Abs(call.latitude) >=
              (IF "latitude_threshold" \in DOMAIN config.arctic_adjustments
               THEN config.arctic_adjustments.latitude_threshold
               ELSE DEFAULT_ARCTIC_THRESHOLD)

\* The minutes the priority rule selects for the event
PriorityAdjustment(prayer) ==
    LET config == AdjConfigs[call.config]
    IN  IF CityOverrides(prayer)
        THEN config.city_adjustments[Lower(call.city[1])][prayer]
        ELSE IF ArcticOverrideApplies(prayer)
        THEN config.arctic_adjustments.adjustment_minutes[prayer]
        ELSE config.adjustment_minutes[prayer]

\* The minutes the call added to the event, when the event has a time
AddedMinutes(prayer) == call.times[prayer][1] - call.raw[prayer][1]

\* C12: for each of the six events that has a time, the adjustment that
\* calculate_prayer_times added is the city override when the given city has
\* one for the event, otherwise the arctic override when the country defines
\* one and |latitude| >= its threshold, otherwise the country's base
\* adjustment, and it is that one value alone.
C12_AdjustmentPriority ==
    AdjReturned =>
        \A i \in 1..Len(Events) :
            /\ (call.times[Events[i]] = <<>>) <=> (call.raw[Events[i]] = <<>>)
            /\ call.times[Events[i]] # <<>> =>
                  AddedMinutes(Events[i]) = MilliPerUnit * PriorityAdjustment(Events[i])

\* A call where all three sources compete: Oslo above the arctic threshold
\* of its config; fajr takes the city value, dhuhr the arctic one, asr the base
C12_Witness ==
    /\ AdjReturned
    /\ call.config = "norway_both" /\ call.city = <<"Oslo">> /\ call.latitude = 59914
    /\ call.date.month = 3
    /\ CityOverrides("fajr") /\ ArcticOverrideApplies("fajr")
    /\ AddedMinutes("fajr") = MilliPerUnit * 3
    /\ ~CityOverrides("dhuhr") /\ ArcticOverrideApplies("dhuhr")
    /\ AddedMinutes("dhuhr") = MilliPerUnit * 2
    /\ ~CityOverrides("asr") /\ ~ArcticOverrideApplies("asr")
    /\ AddedMinutes("asr") = MilliPerUnit * 9

(***************************************************************************)
(* The four lookups of a calibration by country name:                      *)
(* FaziletCalibration.get_calibration, FaziletCalibrator.apply_calibration *)
(* of app/calibrator.py and of app/main.py, and the COUNTRY_CONFIGS lookup *)
(* of FaziletMethodology.calculate_prayer_times.  Each call records the    *)
(* calibration selected and the result of the operation that selected it.  *)
(***************************************************************************)
LookupImplementations == Implementations \cup {"fazilet.py"}

CanonicalIds == {"norway", "turkey", "south_korea"}
KnownIds == CanonicalIds \cup {"world", "tajikistan", "uzbekistan", "russia"}

\* Names that differ from a canonical id by letter case or by a space in
\* place of the underscore, and the aliases, each with its canonical id
CanonicalIdOf ==
    [i \in CanonicalIds |-> i] @@
    ("Norway" :> "norway" @@ "NORWAY" :> "norway" @@
     "Turkey" :> "turkey" @@ "TURKEY" :> "turkey" @@
     "South Korea" :> "south_korea" @@ "south korea" :> "south_korea" @@
     "SOUTH_KOREA" :> "south_korea" @@ "South_Korea" :> "south_korea" @@
     "norge" :> "norway" @@ "norwegian" :> "norway" @@
     "türkiye" :> "turkey" @@ "turkiye" :> "turkey" @@
     "korea" :> "south_korea" @@ "southkorea" :> "south_korea")

UnknownCountries ==
    {"atlantis", "Atlantis", "", "north korea", "North Korea", "sweden", "xx", "nor way"}

LookupCountries == KnownIds \cup DOMAIN CanonicalIdOf \cup {"Tajikistan"} \cup UnknownCountries

\* Istanbul on 2026-06-21
LookupLatitude == 41008
LookupLongitude == 28978
LookupTimezone == 3
LookupDate == [year |-> 2026, month |-> 6, day |-> 21]
LookupBaseTimes ==
    [fajr |-> FormatClock(3, 24), sunrise |-> FormatClock(5, 32),
     dhuhr |-> FormatClock(13, 6), asr |-> FormatClock(17, 5),
     maghrib |-> FormatClock(20, 40), isha |-> FormatClock(22, 38)]

\* The calibration the implementation selects for the country
SelectedCalibration(implementation, country) ==
    CASE implementation = "calibrations.py" -> get_calibration(country)
      [] implementation = "calibrator.py" ->
            CalibratorAdjustments(COUNTRY_CALIBRATIONS, country)
      [] implementation = "main.py" ->
            CalibratorAdjustments(MAIN_COUNTRY_CALIBRATIONS, country)
      [] implementation = "fazilet.py" -> FaziletConfig(country)

\* What the operation that made the lookup returns
LookupResult(implementation, country) ==
    IF implementation = "fazilet.py"
    THEN calculate_prayer_times(LookupLatitude, LookupLongitude, LookupDate,
                                LookupTimezone, country)
    ELSE apply_calibration(implementation, LookupBaseTimes, country)

Lookup ==
    /\ unit = "lookup"
    /\ call.stage = "called"
    /\ call' = [call EXCEPT
                   !.stage = "returned",
                   !.selected = SelectedCalibration(call.implementation, call.country),
                   !.result = LookupResult(call.implementation, call.country)]
    /\ UNCHANGED <<unit, now, cacheVars, dailyVars, ipVars, calcVars, rt>>

InitLookup ==
    /\ unit = "lookup"
    /\ now = 0
    /\ main_cache = Main_init(1)
    /\ pro_cache = Pro_init(1)
    /\ last = NoCall
    /\ recency = <<>>
    /\ DailyIdle
    /\ IphoneIdle
    /\ CalcIdle
    /\ RoundTripIdle
    /\ \E implementation \in LookupImplementations, country \in LookupCountries :
          call = [stage |-> "called", implementation |-> implementation,
                  country |-> country, selected |-> <<>>, result |-> <<>>]

NextLookup == Lookup

SpecLookup == InitLookup /\ [][NextLookup]_vars

LookupReturned == unit = "lookup" /\ call.stage = "returned"

\* The designated default of each implementation
DefaultCalibration(implementation) ==
    CASE implementation = "calibrations.py" -> CALIBRATION_DATABASE["world"]
      [] implementation = "calibrator.py" -> COUNTRY_CALIBRATIONS["turkey"]
      [] implementation = "main.py" -> MAIN_COUNTRY_CALIBRATIONS["turkey"]
      [] implementation = "fazilet.py" -> COUNTRY_CONFIGS["turkey"]

\* All six events present, each a well-formed clock string
CompleteResult(result) ==
    /\ DOMAIN result = {Events[i] : i \in 1..Len(Events)}
    /\ \A prayer \in DOMAIN result :
          /\ result[prayer] # NA
          /\ Len(result[prayer]) = 5
          /\ TimeOfDay(result[prayer]) \in 0..(MINUTES_PER_CLOCK - 1)

\* C13: a country that is neither a known id nor an alias selects the
\* designated default (world in get_calibration, turkey in the calibrators
\* and in calculate_prayer_times) and the operation returns a complete result.
C13_UnknownCountryDefault ==
    (LookupReturned /\ call.country \in UnknownCountries) =>
        /\ call.selected = DefaultCalibration(call.implementation)
        /\ CompleteResult(call.result)

\* "atlantis" through get_calibration: the world calibration, fajr +11
C13_Witness ==
    /\ LookupReturned
    /\ call.country = "atlantis" /\ call.implementation = "calibrations.py"
    /\ call.selected = CALIBRATION_DATABASE["world"]
    /\ call.selected # CALIBRATION_DATABASE["turkey"]
    /\ call.result.fajr = FormatClock(3, 35)

\* C14: in every lookup a name that differs from a canonical id by letter
\* case or by a space for the underscore, and each alias, selects the same
\* calibration as the canonical id.
C14_CaseAndAliases ==
    (LookupReturned /\ call.country \in DOMAIN CanonicalIdOf) =>
        call.selected = SelectedCalibration(call.implementation, CanonicalIdOf[call.country])

(***************************************************************************)
(* calculate_qibla (app/main.py, app/calculations/fazilet.py): the bearing *)
(* to the Kaaba.  Angles are in millidegrees and the result is in          *)
(* hundredths of a degree, the unit of round(qibla, 2).  Near north the    *)
(* bearing must be resolved below the rounding step, so sines and the two  *)
(* arguments of atan2 are carried at FineScale.                            *)
(***************************************************************************)
FineScale == 1000000
CoarseScale == 1000
MilliDegreesPerRadian == 57296
KAABA_LAT == 21423
KAABA_LON == 39826
CENTI_FULL_TURN == 36000

\* FineScale * sin of an angle of the first quadrant
SinFineFirstQuadrant(x) ==
    LET d == x \div MilliPerUnit
        f == x % MilliPerUnit
    IN  IF d >= 90 THEN FineScale
        ELSE RoundDiv(SinTable[d + 1] * (MilliPerUnit - f) + SinTable[d + 2] * f, 10)

\* FineScale * math.sin(math.radians(x))
SinFine(x) ==
    LET y == x % FULL_TURN
    IN  IF y <= QUARTER_TURN THEN SinFineFirstQuadrant(y)
        ELSE IF y <= HALF_TURN THEN SinFineFirstQuadrant(HALF_TURN - y)
        ELSE IF y <= HALF_TURN + QUARTER_TURN THEN 0 - SinFineFirstQuadrant(y - HALF_TURN)
        ELSE 0 - SinFineFirstQuadrant(FULL_TURN - y)

\* math.degrees(math.atan2(y, x)) for arguments at FineScale: the small-angle
\* form where the ratio is below 1/100 and x > 0, the table otherwise
Atan2Fine(y, x) ==
    IF x > 0 /\ Abs(y) * 100 <= x
    THEN Sign(y) * RoundDiv(Abs(y) * MilliDegreesPerRadian, x)
    ELSE Atan2(RoundDiv(y, FineScale \div TrigScale), RoundDiv(x, FineScale \div TrigScale))

\* round(qibla, 2), in hundredths of a degree
RoundToCenti(millidegrees) == RoundDiv(millidegrees, 10)

\* calculate_qibla(latitude, longitude), in hundredths of a degree
calculate_qibla(latitude, longitude) ==
    LET dlon == KAABA_LON - longitude
        x == RoundDiv(SinFine(dlon) * RoundDiv(Cos(KAABA_LAT), TrigScale \div CoarseScale),
                      CoarseScale)
        y == RoundDiv(Cos(latitude) * Sin(KAABA_LAT)
                      - RoundDiv(Sin(latitude) * Cos(KAABA_LAT), TrigScale) * Cos(dlon),
                      (TrigScale * TrigScale) \div FineScale)
        bearing == Atan2Fine(x, y)
        qibla == (bearing + FULL_TURN) % FULL_TURN
    IN  RoundToCenti(qibla)

QiblaImplementations == {"main.py", "fazilet.py"}
QiblaLatitudes == {0 - 90000, 0 - 60000, 0 - 30000, 0, 10000, 30000, 45000, 59914, 90000}
QiblaLongitudes ==
    {0 - 180000, 0 - 90000, 0, 10752, 39000, 39820, 39826, 39827, 39828, 39830, 39840,
     45000, 90000, 180000}

Qibla ==
    /\ unit = "qibla"
    /\ call.stage = "called"
    /\ call' = [call EXCEPT !.stage = "returned",
                             !.qibla = <<calculate_qibla(call.latitude, call.longitude)>>]
    /\ UNCHANGED <<unit, now, cacheVars, dailyVars, ipVars, calcVars, rt>>

InitQibla ==
    /\ unit = "qibla"
    /\ now = 0
    /\ main_cache = Main_init(1)
    /\ pro_cache = Pro_init(1)
    /\ last = NoCall
    /\ recency = <<>>
    /\ DailyIdle
    /\ IphoneIdle
    /\ CalcIdle
    /\ RoundTripIdle
    /\ \E implementation \in QiblaImplementations, latitude \in QiblaLatitudes,
          longitude \in QiblaLongitudes :
          call = [stage |-> "called", implementation |-> implementation,
                  latitude |-> latitude, longitude |-> longitude, qibla |-> <<>>]

NextQibla == Qibla

SpecQibla == InitQibla /\ [][NextQibla]_vars

QiblaReturned == unit = "qibla" /\ call.stage = "returned"

\* C15: for every latitude in [-90, 90] and longitude in [-180, 180] the
\* bearing calculate_qibla returns, rounded to 2 decimals, is at least 0 and
\* below 360: 360.00 is never returned.
C15_QiblaRange ==
    QiblaReturned => call.qibla[1] >= 0 /\ call.qibla[1] < CENTI_FULL_TURN

(***************************************************************************)
(* Asr in FaziletMethodology.calculate_prayer_times (SpecFazilet)          *)
(***************************************************************************)
\* C16: every daily computation returns a clock time for Asr, never N/A
\* (FaziletMethodology.calculate_prayer_times is one of the entry points).
C16_AsrAlwaysTime == FzDone => fz_out.asr # NA

(***************************************************************************)
(* FaziletMethodology.calculate_prayer_times over the whole range of its   *)
(* arguments: longitudes at both ends of [-180, 180] and timezone offsets  *)
(* at both ends of [-12, +14], where solar noon lies far off the clock.    *)
(***************************************************************************)
ExLatitudes == {0 - 90000, 0 - 60000, 0 - 45000, 0, 41008, 48000, 59914, 65000, 90000}
ExLongitudes == {0 - 180000, 0, 180000}
ExTimezones == {0 - 12, 0, 14}
ExDates == {[year |-> 2026, month |-> 3, day |-> 20],
            [year |-> 2026, month |-> 6, day |-> 21],
            [year |-> 2026, month |-> 12, day |-> 21]}
ExCountries == {"turkey", "norway"}

ExCalculate ==
    /\ unit = "extremes"
    /\ call.stage = "called"
    /\ call' = [call EXCEPT
                   !.stage = "returned",
                   !.result = calculate_prayer_times(call.latitude, call.longitude, call.date,
                                                     call.timezone_offset, call.country)]
    /\ UNCHANGED <<unit, now, cacheVars, dailyVars, ipVars, calcVars, rt>>

InitExtremes ==
    /\ unit = "extremes"
    /\ now = 0
    /\ main_cache = Main_init(1)
    /\ pro_cache = Pro_init(1)
    /\ last = NoCall
    /\ recency = <<>>
    /\ DailyIdle
    /\ IphoneIdle
    /\ CalcIdle
    /\ RoundTripIdle
    /\ \E latitude \in ExLatitudes, longitude \in ExLongitudes, date \in ExDates,
          timezone_offset \in ExTimezones, country \in ExCountries :
          call = [stage |-> "called", latitude |-> latitude, longitude |-> longitude,
                  date |-> date, timezone_offset |-> timezone_offset, country |-> country,
                  result |-> <<>>]

NextExtremes == ExCalculate

SpecExtremes == InitExtremes /\ [][NextExtremes]_vars

ExReturned == unit = "extremes" /\ call.stage = "returned"

\* C17: for every latitude in [-90, 90], longitude in [-180, 180], date and
\* timezone offset in [-12, +14], calculate_prayer_times returns exactly the
\* six keys, each value N/A or HH:MM with 00 <= HH <= 23 and 00 <= MM <= 59.
C17_WellFormedResult ==
    ExReturned =>
        /\ DOMAIN call.result = {Events[i] : i \in 1..Len(Events)}
        /\ \A prayer \in DOMAIN call.result :
              call.result[prayer] = NA \/ WellFormedClock(call.result[prayer])

(***************************************************************************)
(* Coordinates on the two paths that compute and cache prayer times: the   *)
(* daily endpoint of app/main.py behind its request model, and the task    *)
(* calculate_prayer_times_async of app/task.py.  Coordinates are whole     *)
(* degrees.  The body of the task is followed statement by statement; its  *)
(* call of FaziletCalibration.calculate_qibla raises NameError because     *)
(* app/calibrations.py uses math without importing it, so the task leaves  *)
(* through its except clause before it reaches the cache.                  *)
(***************************************************************************)
MIN_LATITUDE == 0 - 90
MAX_LATITUDE == 90
MIN_LONGITUDE == 0 - 180
MAX_LONGITUDE == 180

\* app/utils.py: validate_coordinates(latitude, longitude)[0]
validate_coordinates(latitude, longitude) ==
    IF ~(MIN_LATITUDE <= latitude /\ latitude <= MAX_LATITUDE) THEN FALSE
    ELSE IF ~(MIN_LONGITUDE <= longitude /\ longitude <= MAX_LONGITUDE) THEN FALSE
    ELSE TRUE

\* PrayerTimesRequest: Field(..., ge=-90, le=90), Field(..., ge=-180, le=180)
RequestModelAccepts(latitude, longitude) ==
    /\ latitude >= MIN_LATITUDE /\ latitude <= MAX_LATITUDE
    /\ longitude >= MIN_LONGITUDE /\ longitude <= MAX_LONGITUDE

HttpUnprocessable == [status |-> 422, body |-> [detail |-> "validation error"]]

CoordLatitudes == {0 - 91, 0 - 90, 0, 41, 59, 90, 91, 120}
CoordLongitudes == {0 - 181, 0 - 180, 0, 29, 180, 181, 500}
CoordPaths == {"http", "task"}
CoordDate == "2026-06-21"
CoordCountry == "turkey"

CoordRequest ==
    [latitude |-> call.latitude, longitude |-> call.longitude, date |-> CoordDate,
     country |-> CoordCountry, timezone_offset |-> <<>>]

\* POST /api/v1/times/daily: the request model, then the handler
HttpDaily ==
    /\ unit = "coordinates"
    /\ call.stage = "called" /\ call.path = "http"
    /\ IF RequestModelAccepts(call.latitude, call.longitude)
       THEN LET h == get_daily_prayer_times(main_cache, CoordRequest, now)
            IN  /\ main_cache' = h.c
                /\ call' = [call EXCEPT !.stage = "returned", !.computed = h.calculated,
                                        !.outcome = h.response.status]
       ELSE /\ main_cache' = main_cache
            /\ call' = [call EXCEPT !.stage = "returned", !.computed = FALSE,
                                    !.outcome = HttpUnprocessable.status]
    /\ UNCHANGED <<unit, now, pro_cache, last, recency, dailyVars, ipVars, calcVars, rt>>

TaskNameError == 1

\* calculate_prayer_times_async(latitude, longitude, date_str): base times,
\* calibration, then calculate_qibla raises and the task re-raises
calculate_prayer_times_async ==
    /\ unit = "coordinates"
    /\ call.stage = "called" /\ call.path = "task"
    /\ call' = [call EXCEPT !.stage = "returned", !.computed = TRUE,
                            !.outcome = TaskNameError]
    /\ UNCHANGED <<unit, now, cacheVars, dailyVars, ipVars, calcVars, rt>>

InitCoordinates ==
    /\ unit = "coordinates"
    /\ now = 0
    /\ main_cache = Main_init(DailyMaxSize)
    /\ pro_cache = Pro_init(1)
    /\ last = NoCall
    /\ recency = <<>>
    /\ DailyIdle
    /\ IphoneIdle
    /\ CalcIdle
    /\ RoundTripIdle
    /\ \E path \in CoordPaths, latitude \in CoordLatitudes, longitude \in CoordLongitudes :
          call = [stage |-> "called", path |-> path, latitude |-> latitude,
                  longitude |-> longitude, computed |-> FALSE, outcome |-> 0]

NextCoordinates == HttpDaily \/ calculate_prayer_times_async

SpecCoordinates == InitCoordinates /\ [][NextCoordinates]_vars

CoordReturned == unit = "coordinates" /\ call.stage = "returned"

\* An entry for the coordinate in either cache
CoordCached ==
    \/ DailyKey(CoordRequest) \in OD_keys(main_cache.cache)
    \/ ip_cache._cache # <<>>

\* C18: on every path that computes and caches prayer times a latitude
\* outside [-90, 90] or a longitude outside [-180, 180] is rejected: no
\* computation runs and no cache entry is created for the coordinate.
C18_InvalidCoordinatesRejected ==
    (CoordReturned /\ ~validate_coordinates(call.latitude, call.longitude)) =>
        /\ ~call.computed
        /\ call.outcome = HttpUnprocessable.status
        /\ ~CoordCached

(***************************************************************************)
(* test_accuracy.py: the cities of the harness, their reference times, and *)
(* the comparison of its loop.  The harness date is 2026-01-09; the runs   *)
(* cover every day of that month.                                          *)
(***************************************************************************)
Expected(fajr, dhuhr, asr, maghrib, isha) ==
    [fajr |-> fajr, dhuhr |-> dhuhr, asr |-> asr, maghrib |-> maghrib, isha |-> isha]

test_cities ==
    [Oslo |-> [latitude |-> 59914, longitude |-> 10752, timezone_offset |-> 1,
               country |-> "norway",
               expected |-> Expected(FormatClock(6, 39), FormatClock(12, 30),
                                     FormatClock(13, 30), FormatClock(15, 45),
                                     FormatClock(18, 11))],
     Paris |-> [latitude |-> 48857, longitude |-> 2352, timezone_offset |-> 1,
                country |-> "world",
                expected |-> Expected(FormatClock(6, 56), FormatClock(13, 4),
                                      FormatClock(14, 59), FormatClock(17, 21),
                                      FormatClock(19, 7))],
     Cairo |-> [latitude |-> 30044, longitude |-> 31236, timezone_offset |-> 2,
                country |-> "world",
                expected |-> Expected(FormatClock(5, 38), FormatClock(12, 9),
                                      FormatClock(14, 58), FormatClock(17, 19),
                                      FormatClock(18, 37))],
     NewYork |-> [latitude |-> 40713, longitude |-> 0 - 74006, timezone_offset |-> 0 - 5,
                  country |-> "world",
                  expected |-> Expected(FormatClock(5, 51), FormatClock(12, 10),
                                        FormatClock(14, 33), FormatClock(16, 54),
                                        FormatClock(18, 24))]]

test_date == [year |-> 2026, month |-> 1, day |-> 9]
DaysOfJanuary == 31
AccuracyDates == {[year |-> 2026, month |-> 1, day |-> d] : d \in 1..DaysOfJanuary}
ToleranceMinutes == 3

\* diff = abs((e_h * 60 + e_m) - (c_h * 60 + c_m))
ClockDiff(expected_time, calculated_time) ==
    Abs(TimeOfDay(expected_time) - TimeOfDay(calculated_time))

AccuracyRun ==
    /\ unit = "accuracy"
    /\ call.stage = "called"
    /\ call' = [call EXCEPT
                   !.stage = "returned",
                   !.times = LET city == test_cities[call.city]
                             IN  calculate_prayer_times(city.latitude, city.longitude,
                                                        call.date, city.timezone_offset,
                                                        city.country)]
    /\ UNCHANGED <<unit, now, cacheVars, dailyVars, ipVars, calcVars, rt>>

InitAccuracy ==
    /\ unit = "accuracy"
    /\ now = 0
    /\ main_cache = Main_init(1)
    /\ pro_cache = Pro_init(1)
    /\ last = NoCall
    /\ recency = <<>>
    /\ DailyIdle
    /\ IphoneIdle
    /\ CalcIdle
    /\ RoundTripIdle
    /\ \E city \in DOMAIN test_cities, date \in AccuracyDates :
          call = [stage |-> "called", city |-> city, date |-> date, times |-> <<>>]

NextAccuracy == AccuracyRun

SpecAccuracy == InitAccuracy /\ [][NextAccuracy]_vars

AccuracyReturned == unit = "accuracy" /\ call.stage = "returned"

\* C19: on 2026-01-09, for each city of the harness, the times returned for
\* fajr, dhuhr, asr, maghrib and isha are within 3 minutes of the reference.
C19_AccuracyHarness ==
    (AccuracyReturned /\ call.date = test_date) =>
        \A prayer \in DOMAIN test_cities[call.city].expected :
            /\ call.times[prayer] # NA
            /\ ClockDiff(test_cities[call.city].expected[prayer], call.times[prayer])
                  <= ToleranceMinutes

(***************************************************************************)
(* The daily endpoint (SpecDaily): what a request answered from the cache  *)
(* receives, against a fresh calculation for that request's own inputs.    *)
(***************************************************************************)
AnsweredFromCache(c) == pc[c] = "done" /\ ~calculated[c]

\* The two requests have been received and derive the same cache key
ShareKey(c, d) ==
    /\ pc[c] # "idle" /\ pc[d] # "idle"
    /\ DailyKey(request[c]) = DailyKey(request[d])

\* A fresh calculation gives both requests the same times and offset
ComputeAlike(q, r) ==
    /\ ResponseData(q).prayer_times = ResponseData(r).prayer_times
    /\ ResponseData(q).timezone_offset = ResponseData(r).timezone_offset

\* Requests that share a cache key compute alike
KeyCoversInputs ==
    \A c, d \in Clients : ShareKey(c, d) => ComputeAlike(request[c], request[d])

\* C20: a request answered from the cache receives the prayer_times and the
\* timezone_offset a fresh calculation for its own latitude, longitude, date,
\* country and timezone_offset would give, and two requests that would
\* compute different results never share a cache key.
C20_CacheTransparency ==
    /\ \A c \in Clients :
          AnsweredFromCache(c) =>
              /\ response[c].status = 200
              /\ response[c].body.prayer_times = ResponseData(request[c]).prayer_times
              /\ response[c].body.timezone_offset = ResponseData(request[c]).timezone_offset
    /\ KeyCoversInputs

(***************************************************************************)
(* set on a key that is already stored (SpecTTL)                           *)
(***************************************************************************)
\* Every stored entry other than k is still stored, with its value
OthersKept(k) ==
    \A j \in StoredKeys \ {k} :
        /\ j \in StoredKeys' /\ j \in MetaKeys'
        /\ OD_value(StoredSeq', j) = OD_value(StoredSeq, j)

\* C21: a set for a key that is already present stores the new value and
\* insertion time for it, leaves every other stored entry in the cache, also
\* when the cache holds max_size entries, and does not change the number of
\* entries.
C21_OverwriteKeepsOthers ==
    [][\A k \in Keys :
          (SetStep(k) /\ k \in StoredKeys) =>
              /\ k \in StoredKeys' /\ InsertedAt(k)' = now
              /\ OthersKept(k)
              /\ Len(StoredSeq') = Len(StoredSeq)]_vars

(***************************************************************************)
(* Values and their bookkeeping (SpecTTL)                                  *)
(***************************************************************************)
\* C22: after any sequence of get, set and delete calls the keys holding a
\* value are the keys holding a timestamp (main.py) or a metadata record
\* (cache.py).
C22_DataAndBookkeeping ==
    /\ OD_keys(main_cache.cache) = DOMAIN main_cache.timestamps
    /\ OD_keys(pro_cache.data_cache) = DOMAIN pro_cache.metadata

\* a lookup has just removed an expired entry while another entry stays
C22_Witness ==
    /\ last.op = "get" /\ last.branch = "expired"
    /\ StoredKeys # {} /\ StoredKeys = MetaKeys
    /\ last.key \notin MetaKeys

(***************************************************************************)
(* POST /api/v1/qibla (app/main.py, get_qibla_direction) on the cache of   *)
(* app/main.py, with the clock running in steps of half the TTL.           *)
(***************************************************************************)
QIBLA_MAX_AGE == 43200
MaxQiblaRequests == 3
MaxQiblaTicks == 3
QiblaMaxSize == 2
QiblaTickMinutes == QIBLA_MAX_AGE \div 2

\* Due south of the Kaaba (bearing 0.0), Istanbul, Oslo, the equator at 0 E
QiblaLocations ==
    {[latitude |-> 0, longitude |-> KAABA_LON],
     [latitude |-> 41008, longitude |-> 28978],
     [latitude |-> 59914, longitude |-> 10752],
     [latitude |-> 0, longitude |-> 0]}

QiblaKey(loc) == generate_key(<<"qibla", loc.latitude, loc.longitude>>)

\* The handler run to completion on cache c at time t; "if cached:" takes a
\* stored bearing of 0.0 for no entry
get_qibla_direction(c, loc, t) ==
    LET cached == Main_get(c, QiblaKey(loc), QIBLA_MAX_AGE, t)
        truthy == IF cached.branch = "hit" THEN cached.ret # 0 ELSE FALSE
        qibla == calculate_qibla(loc.latitude, loc.longitude)
    IN  IF truthy
        THEN [c |-> cached.c, qibla_direction |-> cached.ret, cache_hit |-> TRUE,
              computed |-> FALSE]
        ELSE [c |-> Main_set(cached.c, QiblaKey(loc), qibla, QIBLA_MAX_AGE, t),
              qibla_direction |-> qibla, cache_hit |-> FALSE, computed |-> TRUE]

QiblaRequestStep(loc) ==
    /\ unit = "qibla_endpoint"
    /\ call.n < MaxQiblaRequests
    /\ LET h == get_qibla_direction(main_cache, loc, now)
       IN  /\ main_cache' = h.c
           /\ call' = [stage |-> "answered", n |-> call.n + 1, loc |-> loc,
                       qibla_direction |-> h.qibla_direction, cache_hit |-> h.cache_hit,
                       computed |-> h.computed]
    /\ UNCHANGED <<unit, now, pro_cache, last, recency, dailyVars, ipVars, calcVars, rt>>

QiblaTick ==
    /\ unit = "qibla_endpoint"
    /\ now < MaxQiblaTicks * QiblaTickMinutes
    /\ now' = now + QiblaTickMinutes
    /\ UNCHANGED <<unit, cacheVars, dailyVars, ipVars, calcVars, moreVars>>

InitQiblaEndpoint ==
    /\ unit = "qibla_endpoint"
    /\ now = 0
    /\ \E m \in 1..QiblaMaxSize : main_cache = Main_init(m)
    /\ pro_cache = Pro_init(1)
    /\ last = NoCall
    /\ recency = <<>>
    /\ DailyIdle
    /\ IphoneIdle
    /\ CalcIdle
    /\ RoundTripIdle
    /\ call = [stage |-> "idle", n |-> 0, loc |-> [latitude |-> 0, longitude |-> 0],
               qibla_direction |-> 0, cache_hit |-> FALSE, computed |-> FALSE]

NextQiblaEndpoint == QiblaTick \/ \E loc \in QiblaLocations : QiblaRequestStep(loc)

SpecQiblaEndpoint == InitQiblaEndpoint /\ [][NextQiblaEndpoint]_vars

\* The bearing of loc is stored, not evicted, and within its TTL
QiblaCachedFresh(loc) ==
    /\ QiblaKey(loc) \in OD_keys(main_cache.cache)
    /\ now - main_cache.timestamps[QiblaKey(loc)] <= QIBLA_MAX_AGE

\* C23: once the bearing of a location has been computed and cached, a
\* request for the same location within the 43200-minute TTL and before
\* eviction does not recompute or re-store it and responds with
\* cache_hit = true and the stored bearing, whatever the bearing (also 0.0).
C23_QiblaCacheHit ==
    [][\A loc \in QiblaLocations :
          (call'.n = call.n + 1 /\ call'.loc = loc /\ QiblaCachedFresh(loc)) =>
              /\ call'.cache_hit /\ ~call'.computed
              /\ call'.qibla_direction = OD_value(main_cache.cache, QiblaKey(loc))
              /\ main_cache'.timestamps[QiblaKey(loc)] = main_cache.timestamps[QiblaKey(loc)]]_vars

(***************************************************************************)
(* The timezone offset the daily endpoint computes with (SpecDaily)        *)
(***************************************************************************)
\* C24: whenever the caller supplies a timezone_offset, 0 included, the
\* computation uses exactly that offset; round(longitude / 15) is used only
\* when the offset is omitted.
C24_TimezoneHonoured ==
    \A c \in Clients :
        (pc[c] = "done" /\ calculated[c]) =>
            response[c].body.timezone_offset =
                (IF request[c].timezone_offset # <<>>
                 THEN request[c].timezone_offset[1]
                 ELSE RoundLongitudeHours(request[c].longitude))

(***************************************************************************)
(* POST /api/v1/times/bulk (app/main.py, get_bulk_prayer_times): the       *)
(* months and days it calculates, for a request that misses the cache.     *)
(***************************************************************************)
MONTHS_PER_YEAR == 12
BULK_MONTHS == 18

\* calendar.isleap(year)
IsLeap(year) == year % 4 = 0 /\ (year % 100 # 0 \/ year % 400 = 0)

\* calendar.monthrange(year, month)[1]
DaysInMonth(year, month) ==
    IF month = 2 THEN (IF IsLeap(year) THEN 29 ELSE 28)
    ELSE IF month \in {4, 6, 9, 11} THEN 30
    ELSE 31

\* range(-5, 13): the window moved one month into the future
BulkOffsets_future == [i \in 1..BULK_MONTHS |-> i - 6]

\* range(-6, 12)
BulkOffsets == [i \in 1..BULK_MONTHS |-> i - 7]

RECURSIVE WrapMonth(_, _)
\* while target_month > 12: ... ; while target_month < 1: ...
WrapMonth(target_year, target_month) ==
    IF target_month > MONTHS_PER_YEAR
    THEN WrapMonth(target_year + 1, target_month - MONTHS_PER_YEAR)
    ELSE IF target_month < 1
    THEN WrapMonth(target_year - 1, target_month + MONTHS_PER_YEAR)
    ELSE [year |-> target_year, month |-> target_month]

\* f"{target_year}-{target_month:02d}"
MonthKey(target_year, target_month) ==
    DecimalDigits(target_year) \o <<"-">> \o Format02d(target_month)

BulkLatitude == 41
BulkLongitude == 29
BulkTimezone == 3
BulkCountry == "turkey"

\* daily_times of one month: day -> calibrated times
BulkDailyTimes(target_year, target_month) ==
    [day \in 1..DaysInMonth(target_year, target_month) |->
        Daily_apply_calibration(
            ProfessionalAstro_calculate_prayer_times(
                BulkLatitude, BulkLongitude, <<target_year, target_month, day>>,
                BulkTimezone),
            BulkCountry)]

\* The month entries in the order of the loop, each with its key
BulkMonthEntries(today) ==
    [i \in 1..BULK_MONTHS |->
        LET t == WrapMonth(today.year, today.month + BulkOffsets[i])
        IN  [key |-> MonthKey(t.year, t.month), year |-> t.year, month |-> t.month,
             days_in_month |-> DaysInMonth(t.year, t.month),
             daily_times |-> BulkDailyTimes(t.year, t.month)]]

\* all_months[month_key] = {...}: a later entry replaces an earlier one with
\* the same key
AllMonths(entries) ==
    {entries[i] : i \in {j \in DOMAIN entries :
                            \A l \in DOMAIN entries : l > j => entries[l].key # entries[j].key}}

BulkYears == {2023, 2024, 2025, 2099, 2100}
BulkDays == {1, 15, 28}

BulkCalculate ==
    /\ unit = "bulk"
    /\ call.stage = "called"
    /\ call' = [call EXCEPT !.stage = "returned",
                            !.months = AllMonths(BulkMonthEntries(call.today))]
    /\ UNCHANGED <<unit, now, cacheVars, dailyVars, ipVars, calcVars, rt>>

InitBulk ==
    /\ unit = "bulk"
    /\ now = 0
    /\ main_cache = Main_init(1)
    /\ pro_cache = Pro_init(1)
    /\ last = NoCall
    /\ recency = <<>>
    /\ DailyIdle
    /\ IphoneIdle
    /\ CalcIdle
    /\ RoundTripIdle
    /\ \E year \in BulkYears, month \in 1..MONTHS_PER_YEAR, day \in BulkDays :
          call = [stage |-> "called", today |-> [year |-> year, month |-> month, day |-> day],
                  months |-> {}]

NextBulk == BulkCalculate

SpecBulk == InitBulk /\ [][NextBulk]_vars

BulkReturned == unit = "bulk" /\ call.stage = "returned"

\* Months counted from year 0
MonthIndex(year, month) == MONTHS_PER_YEAR * year + (month - 1)

\* C25: for every current date the response holds exactly 18 month entries
\* with distinct keys YYYY-MM, the consecutive calendar months from six
\* months before the current one, the month always in 1..12, and each entry
\* holds one daily entry for every day 1..days_in_month and no other day.
C25_BulkMonthWindow ==
    BulkReturned =>
        LET first == MonthIndex(call.today.year, call.today.month) - 6
        IN  /\ Cardinality(call.months) = BULK_MONTHS
            /\ Cardinality({e.key : e \in call.months}) = BULK_MONTHS
            /\ {MonthIndex(e.year, e.month) : e \in call.months}
                  = first..(first + BULK_MONTHS - 1)
            /\ \A e \in call.months :
                  /\ e.month \in 1..MONTHS_PER_YEAR
                  /\ Len(e.key) = 7 /\ e.key[5] = "-"
                  /\ ParseInt(SubSeq(e.key, 1, 4)) = e.year
                  /\ ParseInt(SubSeq(e.key, 6, 7)) = e.month
                  /\ e.days_in_month = DaysInMonth(e.year, e.month)
                  /\ DOMAIN e.daily_times = 1..e.days_in_month

\* March 2024: the window opens in September 2023, crosses two year ends and
\* holds the 29 days of February 2024
C25_Witness ==
    /\ BulkReturned
    /\ call.today.year = 2024 /\ call.today.month = 3
    /\ \E e \in call.months : e.key = MonthKey(2023, 9)
    /\ \E e \in call.months : e.key = MonthKey(2025, 2) /\ e.days_in_month = 28
    /\ \E e \in call.months :
          e.key = MonthKey(2024, 2) /\ DOMAIN e.daily_times = 1..29

(***************************************************************************)
(* daily_cache_warmup (app/task.py) and the daily endpoint (app/main.py).  *)
(* The task stores through app.iphone_cache.iphone_cache (ip_cache, keys   *)
(* from generate_cache_key); the endpoint looks up app/main.py's own       *)
(* iphone_cache (main_cache, keys from generate_key).  The task body is    *)
(* the one of calculate_prayer_times_async: calculate_qibla raises before  *)
(* the call of cache_prayer_times.                                         *)
(***************************************************************************)
WarmDate == "2026-06-21"
MaxWarmRequests == 2

popular_locations ==
    {[latitude |-> 59914, longitude |-> 10752, country |-> "norway", tz |-> 1],
     [latitude |-> 41008, longitude |-> 28978, country |-> "turkey", tz |-> 3],
     [latitude |-> 37567, longitude |-> 126978, country |-> "south_korea", tz |-> 9],
     [latitude |-> 38560, longitude |-> 68774, country |-> "tajikistan", tz |-> 5],
     [latitude |-> 41300, longitude |-> 69240, country |-> "uzbekistan", tz |-> 5]}

\* calculate_prayer_times_async(lat, lon, today, country, tz) run to its end
\* on the worker's cache c: the cache afterwards and how the task ended
TaskRun(c, loc, date_str, t) ==
    [c |-> c, outcome |-> TaskNameError, computed |-> TRUE]

WarmRequest(loc) ==
    [latitude |-> loc.latitude, longitude |-> loc.longitude, date |-> WarmDate,
     country |-> loc.country, timezone_offset |-> <<loc.tz>>]

\* One task enqueued by daily_cache_warmup for today completes
WarmupTask(loc) ==
    /\ unit = "warmup"
    /\ loc \notin call.warmed
    /\ ip_cache' = TaskRun(ip_cache, loc, WarmDate, now).c
    /\ call' = [call EXCEPT !.warmed = @ \cup {loc}]
    /\ UNCHANGED <<unit, now, cacheVars, dailyVars, ip_expire, ip_last, calcVars, rt>>

\* POST /api/v1/times/daily for a popular location
WarmDaily(loc) ==
    /\ unit = "warmup"
    /\ call.n < MaxWarmRequests
    /\ LET h == get_daily_prayer_times(main_cache, WarmRequest(loc), now)
       IN  /\ main_cache' = h.c
           /\ call' = [call EXCEPT
                          !.n = @ + 1, !.loc = <<loc>>,
                          !.warm = loc \in call.warmed,
                          !.first = \A i \in DOMAIN main_cache.cache :
                                        main_cache.cache[i].key # DailyKey(WarmRequest(loc)),
                          !.status = h.response.status,
                          !.cache_hit = IF h.response.status = 200
                                        THEN h.response.body.cache_hit ELSE FALSE]
    /\ UNCHANGED <<unit, now, pro_cache, last, recency, dailyVars, ipVars, calcVars, rt>>

InitWarmup ==
    /\ unit = "warmup"
    /\ now = 0
    /\ main_cache = Main_init(Cardinality(popular_locations))
    /\ pro_cache = Pro_init(1)
    /\ last = NoCall
    /\ recency = <<>>
    /\ DailyIdle
    /\ IphoneIdle
    /\ CalcIdle
    /\ RoundTripIdle
    /\ call = [warmed |-> {}, n |-> 0, loc |-> <<>>, warm |-> FALSE, first |-> FALSE,
               status |-> 0, cache_hit |-> FALSE]

NextWarmup ==
    \/ \E loc \in popular_locations : WarmupTask(loc)
    \/ \E loc \in popular_locations : WarmDaily(loc)

SpecWarmup == InitWarmup /\ [][NextWarmup]_vars

\* C26: after the warm-up task for today has completed for a popular
\* location, a daily request for that location, date and country is a cache
\* hit: the entry the task wrote is the entry the endpoint's lookup finds.
C26_WarmupServesRequests ==
    (unit = "warmup" /\ call.loc # <<>> /\ call.warm) =>
        call.status = 200 /\ call.cache_hit

(***************************************************************************)
(* Aliasing through iPhoneOptimizedCache (app/iphone_cache.py).  set       *)
(* stores data.copy() and get returns self._cache[key].copy(): dict.copy   *)
(* is shallow, so the top-level items of a dict are copied and a nested    *)
(* dict is shared.  A dict is a record whose date is a value and whose     *)
(* prayer_times is the address of a nested dict on call.heap.              *)
(***************************************************************************)
MaxCopySets == 2
MaxCopySteps == 5
CopyKey == generate_cache_key(41008, 28978, WarmDate, "turkey")
CopyDates == {WarmDate, "1970-01-01"}
CopyClocks == {"03:00", "03:05", "23:59"}

\* dict.copy(): a new dict with the same items, nested objects shared
ShallowCopy(data) == [date |-> data.date, prayer_times |-> data.prayer_times]

\* what a dict reads as, nested values included
Deref(heap, data) == [date |-> data.date, prayer_times |-> heap[data.prayer_times]]

\* data = {"date": ..., "prayer_times": {"fajr": clock}}; cache.set(key, data)
CopySet(clock) ==
    /\ unit = "copy"
    /\ call.n < MaxCopySteps
    /\ Len(call.heap) < MaxCopySets
    /\ LET heap == Append(call.heap, [fajr |-> clock])
           data == [date |-> WarmDate, prayer_times |-> Len(heap)]
       IN  /\ ip_cache' = Ip_set(ip_cache, CopyKey, ShallowCopy(data), 30, now)
           /\ call' = [call EXCEPT !.n = @ + 1, !.op = "set", !.heap = heap,
                                   !.held = <<data>>,
                                   !.stored = <<Deref(heap, data)>>]
    /\ UNCHANGED <<unit, now, cacheVars, dailyVars, ip_expire, ip_last, calcVars, rt>>

\* result = cache.get(key, 1440)
CopyGet ==
    /\ unit = "copy"
    /\ call.n < MaxCopySteps
    /\ LET g == Ip_get(ip_cache, CopyKey, 1440, now)
       IN  /\ g.found
           /\ ip_cache' = g.c
           /\ call' = [call EXCEPT !.n = @ + 1, !.op = "get",
                                   !.held = <<ShallowCopy(g.ret)>>,
                                   !.seen = <<Deref(call.heap, ShallowCopy(g.ret))>>]
    /\ UNCHANGED <<unit, now, cacheVars, dailyVars, ip_expire, ip_last, calcVars, rt>>

\* the caller: held["date"] = date
MutateTop(date) ==
    /\ unit = "copy"
    /\ call.n < MaxCopySteps
    /\ call.held # <<>>
    /\ call.held[1].date # date
    /\ call' = [call EXCEPT !.n = @ + 1, !.op = "top", !.held[1].date = date]
    /\ UNCHANGED <<unit, now, cacheVars, dailyVars, ipVars, calcVars, rt>>

\* the caller: held["prayer_times"]["fajr"] = clock
MutateNested(clock) ==
    /\ unit = "copy"
    /\ call.n < MaxCopySteps
    /\ call.held # <<>>
    /\ call.heap[call.held[1].prayer_times].fajr # clock
    /\ call' = [call EXCEPT !.n = @ + 1, !.op = "nested",
                            !.heap[call.held[1].prayer_times].fajr = clock]
    /\ UNCHANGED <<unit, now, cacheVars, dailyVars, ipVars, calcVars, rt>>

InitCopy ==
    /\ unit = "copy"
    /\ now = 0
    /\ main_cache = Main_init(1)
    /\ pro_cache = Pro_init(1)
    /\ last = NoCall
    /\ recency = <<>>
    /\ DailyIdle
    /\ IphoneIdle
    /\ CalcIdle
    /\ RoundTripIdle
    /\ call = [n |-> 0, op |-> "none", heap |-> <<>>, held |-> <<>>,
               stored |-> <<>>, seen |-> <<>>]

NextCopy ==
    \/ \E clock \in CopyClocks : CopySet(clock)
    \/ CopyGet
    \/ \E date \in CopyDates : MutateTop(date)
    \/ \E clock \in CopyClocks : MutateNested(clock)

SpecCopy == InitCopy /\ [][NextCopy]_vars

\* what a get of the key returns in the current state
CopyWouldGet == Deref(call.heap, Ip_get(ip_cache, CopyKey, 1440, now).ret)

\* C27: whatever the caller does to a dict it passed to set or received from
\* get, nested values included, a later get of the key returns what was
\* stored by the last set.
C27_CopiesProtectCache ==
    (unit = "copy" /\ call.stored # <<>>) => CopyWouldGet = call.stored[1]

\* The part of C27 that the shallow copies do provide: top-level items
TopLevelProtected ==
    (unit = "copy" /\ call.stored # <<>>) => CopyWouldGet.date = call.stored[1].date

(***************************************************************************)
(* AstronomicalCalculator (app/calculations.py), in the fixed-point units  *)
(* of the astronomy above: angles in millidegrees, times of day in         *)
(* milliminutes.  Dividing a number of degrees by 15.0 and reading the     *)
(* quotient as hours is multiplying the millidegrees by MinutesPerDegree   *)
(* and reading the product as milliminutes.                                *)
(***************************************************************************)
OBLIQUITY_ECLIPTIC == 23439
DEGREES_PER_HOUR == 15
BASE_SUNRISE_ANGLE == 0 - 833
BASE_FAJR_ANGLE == 18000
BASE_ISHA_ANGLE == 17000
MILLIMINUTES_PER_DAY == MINUTES_PER_DAY * MilliPerUnit

\* julian_day(datetime(y, m, d, 12, 0, 0)): the fraction of the day is 0.5
Base_julian_day(date) ==
    LET year == IF date.month <= 2 THEN date.year - 1 ELSE date.year
        month == IF date.month <= 2 THEN date.month + 12 ELSE date.month
        A == year \div 100
        B == 2 - A + (A \div 4)
    IN  ((1461 * (year + 4716)) \div 4) + ((306001 * (month + 1)) \div 10000)
        + date.day + B - 1524

\* L = 280.46646 + 36000.76983 T (+ 0.0003032 T^2), T = D / 36525
mean_solar_longitude(D) ==
    (280466 + 985 * D + RoundDiv(64736 * D, 100000)) % FULL_TURN

\* M = 357.52911 + 35999.05029 T (- 0.0001537 T^2)
mean_solar_anomaly(D) ==
    (357529 + 985 * D + RoundDiv(60028 * D, 100000)) % FULL_TURN

\* C = (1.914602 - 0.004817 T) sin M + 0.019993 sin 2M + 0.000289 sin 3M
equation_of_center(D, M) ==
    RoundDiv((1915 - RoundDiv(4817 * D, 36525000)) * Sin(M), TrigScale)
    + RoundDiv(20 * Sin(2 * M), TrigScale)
    + RoundDiv(Sin(3 * M), 3 * TrigScale)

sun_longitude(D) ==
    (mean_solar_longitude(D) + equation_of_center(D, mean_solar_anomaly(D))) % FULL_TURN

Base_sun_declination(D) ==
    Asin(RoundDiv(Sin(OBLIQUITY_ECLIPTIC) * Sin(sun_longitude(D)), TrigScale))

\* equation_of_time, in milliminutes
Base_equation_of_time(D) ==
    LET L == mean_solar_longitude(D)
        lambda_sun == sun_longitude(D)
        alpha == Atan2(RoundDiv(Cos(OBLIQUITY_ECLIPTIC) * Sin(lambda_sun), TrigScale),
                       Cos(lambda_sun)) % FULL_TURN
        eq_time == L - alpha
    IN  MinutesPerDegree *
          (IF eq_time > HALF_TURN THEN eq_time - FULL_TURN
           ELSE IF eq_time < 0 - HALF_TURN THEN eq_time + FULL_TURN
           ELSE eq_time)

\* The hour angle, in millidegrees, at which the sine of the sun's altitude
\* is sin_alt (scaled by TrigScale); <<>> is None
HourAngleDegrees(sin_alt, latitude, declination) ==
    LET num == sin_alt * TrigScale - Sin(latitude) * Sin(declination)
        den == RoundDiv(Cos(latitude) * Cos(declination), TrigScale)
        cos_h == RoundDiv(num, den)
    IN  IF den <= 0 THEN <<>>
        ELSE IF cos_h > TrigScale \/ cos_h < 0 - TrigScale THEN <<>>
        ELSE <<Acos(cos_h)>>

\* sun_hour_angle: returns h, a number of degrees
sun_hour_angle(latitude, declination, angle) ==
    HourAngleDegrees(Sin(angle), latitude, declination)

\* the h of calculate_asr before its return statement, a number of degrees;
\* altitude = atan(1 / shadow_factor)
AsrHourAngle(latitude, declination, shadow_factor) ==
    HourAngleDegrees(Sin(Atan2(TrigScale, shadow_factor * TrigScale)), latitude, declination)

\* calculate_asr: return h / 15.0
calculate_asr(latitude, declination, shadow_factor) ==
    LET h == AsrHourAngle(latitude, declination, shadow_factor)
    IN  IF h = <<>> THEN <<>> ELSE <<RoundDiv(h[1], DEGREES_PER_HOUR)>>

\* solar_noon, in milliminutes after midnight
Base_solar_noon(longitude, timezone_offset, eq_time) ==
    720 * MilliPerUnit - MinutesPerDegree * longitude
    + 60 * MilliPerUnit * timezone_offset - eq_time

\* format_time(*time_from_decimal(decimal_hours)), the argument in milliminutes
BaseFormat(decimal) ==
    LET wrapped == IF decimal < 0 THEN decimal + MILLIMINUTES_PER_DAY
                   ELSE IF decimal >= MILLIMINUTES_PER_DAY
                   THEN decimal - MILLIMINUTES_PER_DAY
                   ELSE decimal
        hour == wrapped \div (60 * MilliPerUnit)
        minute == RoundDiv(wrapped - hour * 60 * MilliPerUnit, MilliPerUnit)
        hour2 == IF minute = 60 THEN hour + 1 ELSE hour
    IN  FormatClock(IF hour2 = 24 THEN 0 ELSE hour2, IF minute = 60 THEN 0 ELSE minute)

\* 'x': solar_noon_decimal +- (hour_angle / 15.0) if hour_angle else None,
\* then formatted or "N/A"; sign is 1 or -1
BaseEntry(solar_noon_decimal, sign, hour_angle) ==
    IF hour_angle # <<>> /\ hour_angle[1] # 0
    THEN BaseFormat(solar_noon_decimal + sign * MinutesPerDegree * hour_angle[1])
    ELSE NA

calculate_prayer_times_base(latitude, longitude, date_obj, timezone_offset, asr_shadow_factor) ==
    LET D == Base_julian_day(date_obj) - J2000
        declination == Base_sun_declination(D)
        eq_time == Base_equation_of_time(D)
        solar_noon_decimal == Base_solar_noon(longitude, timezone_offset, eq_time)
        sunrise == sun_hour_angle(latitude, declination, BASE_SUNRISE_ANGLE)
    IN  [fajr |-> BaseEntry(solar_noon_decimal, 0 - 1,
                            sun_hour_angle(latitude, declination, 0 - BASE_FAJR_ANGLE)),
         sunrise |-> BaseEntry(solar_noon_decimal, 0 - 1, sunrise),
         dhuhr |-> BaseFormat(solar_noon_decimal),
         asr |-> BaseEntry(solar_noon_decimal, 1,
                           calculate_asr(latitude, declination, asr_shadow_factor)),
         maghrib |-> BaseEntry(solar_noon_decimal, 1, sunrise),
         isha |-> BaseEntry(solar_noon_decimal, 1,
                            sun_hour_angle(latitude, declination, 0 - BASE_ISHA_ANGLE))]

BaseLatitudes == {0, 21423, 41008, 51500, 59914}
BaseLongitude == 28978
BaseTimezone == 3
BaseDates == {[year |-> 2026, month |-> m, day |-> d] : m \in 1..12, d \in {1, 15}}
ShadowFactors == {1, 2}

BaseCalculate(latitude, date_obj, shadow_factor) ==
    /\ unit = "base"
    /\ call.stage = "idle"
    /\ LET D == Base_julian_day(date_obj) - J2000
           declination == Base_sun_declination(D)
       IN  call' = [stage |-> "done", latitude |-> latitude, date |-> date_obj,
                    H |-> AsrHourAngle(latitude, declination, shadow_factor),
                    H_maghrib |-> sun_hour_angle(latitude, declination, BASE_SUNRISE_ANGLE),
                    solar_noon |-> Base_solar_noon(BaseLongitude, BaseTimezone,
                                                   Base_equation_of_time(D)),
                    times |-> calculate_prayer_times_base(latitude, BaseLongitude, date_obj,
                                                          BaseTimezone, shadow_factor)]
    /\ UNCHANGED <<unit, now, cacheVars, dailyVars, ipVars, calcVars, rt>>

InitBase ==
    /\ unit = "base"
    /\ now = 0
    /\ main_cache = Main_init(1)
    /\ pro_cache = Pro_init(1)
    /\ last = NoCall
    /\ recency = <<>>
    /\ DailyIdle
    /\ IphoneIdle
    /\ CalcIdle
    /\ RoundTripIdle
    /\ call = [stage |-> "idle", latitude |-> 0, date |-> [year |-> 2026, month |-> 1, day |-> 1],
               H |-> <<>>, H_maghrib |-> <<>>, solar_noon |-> 0,
               times |-> [fajr |-> NA, sunrise |-> NA, dhuhr |-> NA, asr |-> NA,
                          maghrib |-> NA, isha |-> NA]]

NextBase ==
    \E latitude \in BaseLatitudes, date_obj \in BaseDates, shadow_factor \in ShadowFactors :
        BaseCalculate(latitude, date_obj, shadow_factor)

SpecBase == InitBase /\ [][NextBase]_vars

\* C28: when the Asr hour angle H (degrees) is defined, the Asr time is solar
\* noon + H/15 hours, the conversion applied to the other prayers.
C28_AsrOffsetUnits ==
    (unit = "base" /\ call.stage = "done" /\ call.H # <<>>) =>
        call.times.asr = BaseFormat(call.solar_noon + MinutesPerDegree * call.H[1])

\* The conversion as it is applied to Maghrib
MaghribOffsetUnits ==
    (unit = "base" /\ call.stage = "done" /\ call.H_maghrib # <<>>) =>
        call.times.maghrib = BaseFormat(call.solar_noon + MinutesPerDegree * call.H_maghrib[1])

(***************************************************************************)
(* precalculate_next_month (app/task.py).  The queue is the sequence of    *)
(* calls of calculate_prayer_times_async.delay, in the order of the loops. *)
(* delay formats no date and raises no ValueError.                         *)
(***************************************************************************)
MAX_DAYS == 31
FirstYear == 2020
LastYear == 2028

month_locations ==
    <<[latitude |-> 59914, longitude |-> 10752, country |-> "norway", tz |-> 1],
      [latitude |-> 41008, longitude |-> 28978, country |-> "turkey", tz |-> 3],
      [latitude |-> 37567, longitude |-> 126978, country |-> "south_korea", tz |-> 9]>>

\* f"{next_year}-{next_month:02d}-{day:02d}"
NextMonthDateStr(next_year, next_month, day) ==
    DecimalDigits(next_year) \o <<"-">> \o Format02d(next_month) \o <<"-">> \o Format02d(day)

\* the calls of delay made by precalculate_next_month when datetime.now() is
\* in the given month
precalculate_next_month(today) ==
    LET next_month == IF today.month = 12 THEN 1 ELSE today.month + 1
        next_year == IF today.month = 12 THEN today.year + 1 ELSE today.year
    IN  [i \in 1..(Len(month_locations) * MAX_DAYS) |->
            LET loc == month_locations[((i - 1) \div MAX_DAYS) + 1]
                day == ((i - 1) % MAX_DAYS) + 1
            IN  [latitude |-> loc.latitude, longitude |-> loc.longitude,
                 date_str |-> NextMonthDateStr(next_year, next_month, day),
                 country |-> loc.country, timezone_offset |-> loc.tz]]

Precalculate(today) ==
    /\ unit = "month"
    /\ call.stage = "idle"
    /\ call' = [stage |-> "done", today |-> today, queue |-> precalculate_next_month(today)]
    /\ UNCHANGED <<unit, now, cacheVars, dailyVars, ipVars, calcVars, rt>>

InitMonth ==
    /\ unit = "month"
    /\ now = 0
    /\ main_cache = Main_init(1)
    /\ pro_cache = Pro_init(1)
    /\ last = NoCall
    /\ recency = <<>>
    /\ DailyIdle
    /\ IphoneIdle
    /\ CalcIdle
    /\ RoundTripIdle
    /\ call = [stage |-> "idle", today |-> [year |-> FirstYear, month |-> 1], queue |-> <<>>]

NextMonth ==
    \E year \in FirstYear..LastYear, month \in 1..MONTHS_PER_YEAR :
        Precalculate([year |-> year, month |-> month])

SpecMonth == InitMonth /\ [][NextMonth]_vars

\* the month after today's: December rolls over to January of the next year
FollowingMonth(today) ==
    IF today.month = MONTHS_PER_YEAR THEN [year |-> today.year + 1, month |-> 1]
    ELSE [year |-> today.year, month |-> today.month + 1]

\* how often the queue holds a computation for the location on the date
Enqueued(loc, date_str) ==
    Cardinality({i \in DOMAIN call.queue :
                    /\ call.queue[i].latitude = loc.latitude
                    /\ call.queue[i].longitude = loc.longitude
                    /\ call.queue[i].country = loc.country
                    /\ call.queue[i].date_str = date_str})

\* C29: for each popular location exactly one computation is enqueued for
\* every day that exists in the month following the current one, and none for
\* a date that does not exist.
C29_NextMonthDays ==
    (unit = "month" /\ call.stage = "done") =>
        LET m == FollowingMonth(call.today)
        IN  \A i \in DOMAIN month_locations : \A day \in 1..MAX_DAYS :
                Enqueued(month_locations[i], NextMonthDateStr(m.year, m.month, day))
                  = IF day <= DaysInMonth(m.year, m.month) THEN 1 ELSE 0

\* Every day that exists in the following month is enqueued exactly once
ExistingDaysEnqueued ==
    (unit = "month" /\ call.stage = "done") =>
        LET m == FollowingMonth(call.today)
        IN  \A i \in DOMAIN month_locations : \A day \in 1..DaysInMonth(m.year, m.month) :
                Enqueued(month_locations[i], NextMonthDateStr(m.year, m.month, day)) = 1

(***************************************************************************)
(* UzbekistanPrayerTimesService._fetch_html (scrapers/uzbekistan.py).  The *)
(* coroutine is suspended at two awaits, client.get and asyncio.sleep;     *)
(* call.pc is the await it is at.  What client.get and raise_for_status do *)
(* is the environment's choice: a body, an httpx.HTTPError or another      *)
(* Exception.  call.outcomes and call.sleeps record the attempts made and  *)
(* the waits started.                                                      *)
(***************************************************************************)
MAX_RETRIES == 3

FetchUrls == {"https://islam.uz/vremyanamazov/27/6", "https://islam.uz/vremyanamazov/1/6"}
FetchOutcomes ==
    {[kind |-> "ok", value |-> "<table>a</table>"],
     [kind |-> "ok", value |-> ""],
     [kind |-> "http_error", value |-> "ConnectTimeout"],
     [kind |-> "http_error", value |-> "HTTPStatusError 503"],
     [kind |-> "exception", value |-> "RuntimeError"]}

\* if attempt < self.MAX_RETRIES - 1, with every failure waited for
ShouldSleep_every_failure(attempt) == TRUE

\* if attempt < self.MAX_RETRIES - 1
ShouldSleep(attempt) == attempt < MAX_RETRIES - 1

\* 1.0 * (attempt + 1), in seconds
RetryDelay(attempt) == 1 * (attempt + 1)

\* the next iteration of for attempt in range(self.MAX_RETRIES), or the raise
\* after the loop
NextIteration(c) ==
    IF c.attempt + 1 < MAX_RETRIES
    THEN [c EXCEPT !.pc = "get", !.attempt = @ + 1]
    ELSE [c EXCEPT !.pc = "raised", !.error = c.last_error]

\* await self._fetch_html(url) is called
FetchCall(url) ==
    /\ unit = "fetch"
    /\ call.pc = "idle"
    /\ call' = [call EXCEPT !.pc = IF 0 < MAX_RETRIES THEN "get" ELSE "raised",
                            !.url = url, !.attempt = 0, !.last_error = <<>>]
    /\ UNCHANGED <<unit, now, cacheVars, dailyVars, ipVars, calcVars, rt>>

\* await self.client.get(url) and response.raise_for_status() finish
FetchGet(outcome) ==
    /\ unit = "fetch"
    /\ call.pc = "get"
    /\ LET tried == [call EXCEPT !.outcomes = Append(@, outcome)]
           failed == [tried EXCEPT !.last_error = <<outcome.value>>]
       IN  call' = IF outcome.kind = "ok"
                   THEN [tried EXCEPT !.pc = "returned", !.result = <<outcome.value>>]
                   ELSE IF ShouldSleep(call.attempt)
                   THEN [failed EXCEPT !.pc = "sleep",
                                       !.sleeps = Append(@, RetryDelay(call.attempt))]
                   ELSE NextIteration(failed)
    /\ UNCHANGED <<unit, now, cacheVars, dailyVars, ipVars, calcVars, rt>>

\* await asyncio.sleep(...) finishes
FetchSleepDone ==
    /\ unit = "fetch"
    /\ call.pc = "sleep"
    /\ call' = NextIteration(call)
    /\ UNCHANGED <<unit, now, cacheVars, dailyVars, ipVars, calcVars, rt>>

InitFetch ==
    /\ unit = "fetch"
    /\ now = 0
    /\ main_cache = Main_init(1)
    /\ pro_cache = Pro_init(1)
    /\ last = NoCall
    /\ recency = <<>>
    /\ DailyIdle
    /\ IphoneIdle
    /\ CalcIdle
    /\ RoundTripIdle
    /\ call = [pc |-> "idle", url |-> "", attempt |-> 0, last_error |-> <<>>,
               outcomes |-> <<>>, sleeps |-> <<>>, result |-> <<>>, error |-> <<>>]

NextFetch ==
    \/ \E url \in FetchUrls : FetchCall(url)
    \/ \E outcome \in FetchOutcomes : FetchGet(outcome)
    \/ FetchSleepDone

\* client.get is bounded by the client's timeout and asyncio.sleep by its
\* delay, so an await that has started completes
SpecFetch == InitFetch /\ [][NextFetch]_vars /\ WF_vars(NextFetch)

FetchFailures == {i \in DOMAIN call.outcomes : call.outcomes[i].kind # "ok"}

Min(a, b) == IF a < b THEN a ELSE b

FetchSafety ==
    unit = "fetch" =>
        /\ Len(call.outcomes) <= MAX_RETRIES
        /\ \A i \in DOMAIN call.outcomes :
              call.outcomes[i].kind = "ok" =>
                  /\ i = Len(call.outcomes)
                  /\ call.pc = "returned"
                  /\ call.result = <<call.outcomes[i].value>>
        /\ call.pc = "returned" =>
              call.outcomes[Len(call.outcomes)].kind = "ok"
        /\ call.sleeps = [i \in 1..Min(Cardinality(FetchFailures), MAX_RETRIES - 1) |-> i]
        /\ call.pc = "raised" =>
              /\ Len(call.outcomes) = MAX_RETRIES
              /\ Cardinality(FetchFailures) = MAX_RETRIES
              /\ call.error = <<call.outcomes[MAX_RETRIES].value>>

FetchTerminated == unit = "fetch" => call.pc \in {"returned", "raised"}

\* C30: _fetch_html makes at most MAX_RETRIES attempts, returns the body of
\* the first successful one and makes none after it, waits 1 s after the first
\* and 2 s after the second failure and not after the last, raises an error
\* carrying the last failure after three failures, and always terminates in a
\* value or an error.
C30_BoundedRetry == []FetchSafety /\ <>[]FetchTerminated

C30_Witness ==
    /\ unit = "fetch"
    /\ call.pc = "raised"
    /\ call.sleeps = <<1, 2>>
    /\ call.error = <<"RuntimeError">>
    /\ call.outcomes[1].value = "ConnectTimeout"

=============================================================================
